---- MODULE Spec2Model ----
(***************************************************************************)
(* A model of the BibTeX engine of easy-bibtex-manager                     *)
(* (src/src/utils/searchSimilarity.ts, lines 99-436): parseBibtex,         *)
(* processEntries and serializeBibtex with their helpers.                  *)
(*                                                                         *)
(* A JavaScript string is a sequence of one-character strings.  Cursors    *)
(* and indices keep JavaScript's 0-based numbering: the character the code *)
(* writes text[i] is CharAt(text, i).  A JavaScript object used as an      *)
(* ordered map (fields, processedFields, strings) is a sequence of         *)
(* [key, value] records with pairwise distinct keys, in insertion order.   *)
(***************************************************************************)
EXTENDS Integers, Sequences, FiniteSets, TLC

\* ------------------------------------------------------------------------
\* Characters and JavaScript string primitives
\* ------------------------------------------------------------------------

UpperLetters ==
    <<"A","B","C","D","E","F","G","H","I","J","K","L","M",
      "N","O","P","Q","R","S","T","U","V","W","X","Y","Z">>

LowerLetters ==
    <<"a","b","c","d","e","f","g","h","i","j","k","l","m",
      "n","o","p","q","r","s","t","u","v","w","x","y","z">>

Digits == {"0","1","2","3","4","5","6","7","8","9"}

UpperSet == {UpperLetters[i] : i \in 1..26}

LowerSet == {LowerLetters[i] : i \in 1..26}

\* The regular expression class \w.
WordChars == UpperSet \cup LowerSet \cup Digits \cup {"_"}

\* The regular expression class \s, which is also what trim() removes.
SpaceChars == {" ", "\t", "\n", "\r", "\f"}

\* The characters the regular expression . does not match, and before which
\* $ matches under the m flag.
LineTerminators == {"\n", "\r"}

LowerCharMap ==
    [c \in UpperSet |-> LowerLetters[CHOOSE i \in 1..26 : UpperLetters[i] = c]]

LowerChar(c) == IF c \in UpperSet THEN LowerCharMap[c] ELSE c

\* String.prototype.toLowerCase
ToLowerCase(s) == [i \in 1..Len(s) |-> LowerChar(s[i])]

CharAt(s, i) == s[i + 1]

\* String.prototype.substring(a, b) and substring(a), for 0 <= a <= b <= length
Substring(s, a, b) == SubSeq(s, a + 1, b)

SubstringFrom(s, a) == SubSeq(s, a + 1, Len(s))

MinOf(S) == CHOOSE x \in S : \A y \in S : x <= y

\* The first index from `from` on whose mark is TRUE, -1 when there is none;
\* marks[i + 1] is the mark of index i
FirstIndex(marks, from) ==
    LET hits == SelectSeq([k \in 1..(Len(marks) - from) |-> from + k - 1],
                          LAMBDA i : marks[i + 1])
    IN  IF hits = <<>> THEN -1 ELSE hits[1]

\* String.prototype.indexOf(ch, from) for a one-character ch: -1 when absent
IndexOf(s, ch, from) == FirstIndex([i \in 1..Len(s) |-> s[i] = ch], from)

\* String.prototype.includes for a one-character ch
Includes(s, ch) == \E i \in 1..Len(s) : s[i] = ch

StartsWithChar(s, ch) == Len(s) > 0 /\ s[1] = ch

EndsWithChar(s, ch) == Len(s) > 0 /\ s[Len(s)] = ch

\* The length of the match of /^\s*/
LeadingSpaces(s) ==
    LET stop == FirstIndex([i \in 1..Len(s) |-> s[i] \notin SpaceChars], 0)
    IN  IF stop = -1 THEN Len(s) ELSE stop

\* The length of the match of /^\w*/
LeadingWord(s) ==
    LET stop == FirstIndex([i \in 1..Len(s) |-> s[i] \notin WordChars], 0)
    IN  IF stop = -1 THEN Len(s) ELSE stop

\* The number of whitespace characters s ends with
TrailingSpaces(s) ==
    LET stop == FirstIndex([i \in 1..Len(s) |-> s[Len(s) + 1 - i] \notin SpaceChars], 0)
    IN  IF stop = -1 THEN Len(s) ELSE stop

\* String.prototype.trim
Trim(s) ==
    IF LeadingSpaces(s) = Len(s) THEN <<>>
    ELSE SubSeq(s, LeadingSpaces(s) + 1, Len(s) - TrailingSpaces(s))

\* The characters of s at the positions whose mark in keep is TRUE, in order
KeepPositions(s, keep) ==
    LET kept == SelectSeq([i \in 1..Len(s) |-> i], LAMBDA i : keep[i])
    IN  [j \in 1..Len(kept) |-> s[kept[j]]]

\* s.replace(/\s\s+/g, ' '): every run of two or more whitespace characters
\* becomes one space; a run of length one is left as it is.
CollapseSpaces(s) ==
    LET InRun(i)   == s[i] \in SpaceChars
                      /\ \/ (i > 1 /\ s[i - 1] \in SpaceChars)
                         \/ (i < Len(s) /\ s[i + 1] \in SpaceChars)
        RunStart(i) == InRun(i) /\ (i = 1 \/ s[i - 1] \notin SpaceChars)
        marked == [i \in 1..Len(s) |-> IF RunStart(i) THEN " " ELSE s[i]]
    IN  KeepPositions(marked, [i \in 1..Len(s) |-> ~InRun(i) \/ RunStart(i)])

\* s.replace(/"/g, '')
RemoveQuotes(s) == SelectSeq(s, LAMBDA c : c # "\"")

\* The number of occurrences of ch in s
CountChar(s, ch) == Cardinality({i \in 1..Len(s) : s[i] = ch})

\* String.prototype.split(ch) for a one-character separator
RECURSIVE SplitOn(_, _)
SplitOn(s, ch) ==
    LET at == IndexOf(s, ch, 0)
    IN  IF at = -1 THEN <<s>>
        ELSE <<Substring(s, 0, at)>> \o SplitOn(SubstringFrom(s, at + 1), ch)

\* Array.prototype.join(sep)
RECURSIVE Join(_, _)
Join(parts, sep) ==
    IF parts = <<>> THEN <<>>
    ELSE IF Len(parts) = 1 THEN parts[1]
    ELSE parts[1] \o sep \o Join(Tail(parts), sep)

\* ------------------------------------------------------------------------
\* Ordered maps (JavaScript objects with string keys)
\* ------------------------------------------------------------------------

MapHas(m, k) == \E i \in 1..Len(m) : m[i].key = k

MapGet(m, k) == m[CHOOSE i \in 1..Len(m) : m[i].key = k].value

\* m[k] = v: an existing key keeps its place, a new key goes last
MapSet(m, k, v) ==
    IF MapHas(m, k)
    THEN [i \in 1..Len(m) |-> IF m[i].key = k THEN [key |-> k, value |-> v] ELSE m[i]]
    ELSE Append(m, [key |-> k, value |-> v])

MapKeys(m) == [i \in 1..Len(m) |-> m[i].key]

\* needle occurs in hay
IsSubstring(needle, hay) ==
    \E i \in 0..(Len(hay) - Len(needle)) : Substring(hay, i, i + Len(needle)) = needle

\* delete m[k]
MapDelete(m, k) == SelectSeq(m, LAMBDA p : p.key # k)

\* { ...base, ...over } for objects whose properties are known by name
SpreadRecord(base, over) ==
    [k \in DOMAIN base \cup DOMAIN over |-> IF k \in DOMAIN over THEN over[k] ELSE base[k]]

\* ------------------------------------------------------------------------
\* parseBibtex and its helpers
\* ------------------------------------------------------------------------

\* text.replace(/\r\n/g, '\n'): a carriage return goes when a newline follows
NormalizeNewlines(s) ==
    KeepPositions(s, [i \in 1..Len(s) |->
                         ~(s[i] = "\r" /\ i < Len(s) /\ s[i + 1] = "\n")])

\* s.replace(/%.*$/gm, ''): from every % to the end of its line.  A character
\* stays when it is a line terminator or no % precedes it on its line.
StripComments(s) ==
    LET LineStart(i) ==
            LET ends == {k \in 1..(i - 1) : s[k] \in LineTerminators}
            IN  IF ends = {} THEN 1 ELSE (CHOOSE k \in ends : \A m \in ends : m <= k) + 1
    IN  KeepPositions(s, [i \in 1..Len(s) |->
            s[i] \in LineTerminators \/ \A j \in LineStart(i)..i : s[j] # "%"])

CleanText(text) == StripComments(NormalizeNewlines(text))

NoBlock == [found |-> FALSE, content |-> <<>>, endIndex |-> 0]

\* The balance loop of findBlock and of parseValue, started at index from with
\* the given balance: the first index at which the balance is 0, or -1.  The
\* balance after index i is the start balance plus the opens minus the closes
\* in from..i, and it first reaches 0 at a close.
BalancedClose(text, from, balance, openChar, closeChar) ==
    LET BalanceAfter(i) ==
            balance
            + Cardinality({j \in from..i : CharAt(text, j) = openChar})
            - Cardinality({j \in from..i : CharAt(text, j) = closeChar})
        zeros == {i \in from..(Len(text) - 1) :
                     CharAt(text, i) = closeChar /\ BalanceAfter(i) = 0}
    IN  IF zeros = {} THEN -1 ELSE MinOf(zeros)

FindBlock(text, startIndex) ==
    LET openBraceIndex == IndexOf(text, "{", startIndex)
        openParenIndex == IndexOf(text, "(", startIndex)
        useParen == openParenIndex # -1
                    /\ (openParenIndex < openBraceIndex \/ openBraceIndex = -1)
        start == IF useParen THEN openParenIndex ELSE openBraceIndex
        close == IF useParen
                 THEN BalancedClose(text, start + 1, 1, "(", ")")
                 ELSE BalancedClose(text, start + 1, 1, "{", "}")
    IN  IF ~useParen /\ openBraceIndex = -1 THEN NoBlock
        ELSE IF close = -1 THEN NoBlock
        ELSE [found |-> TRUE,
              content |-> Substring(text, start + 1, close),
              endIndex |-> close + 1]

\* The three ways parseValue reads a value; each gives the value before the
\* whitespace collapse and the number of characters consumed.
NoValue == [value |-> <<>>, consumed |-> 0]

\* trimmedText.match(/^([^,]+)/), trimmed
UpToComma(trimmedText) ==
    LET comma == IndexOf(trimmedText, ",", 0)
        head  == IF comma = -1 THEN trimmedText ELSE Substring(trimmedText, 0, comma)
    IN  [value |-> Trim(head), consumed |-> Len(Trim(head))]

BracedValue(trimmedText) ==
    LET close == BalancedClose(trimmedText, 1, 1, "{", "}")
    IN  IF close = -1 THEN NoValue
        ELSE [value |-> Trim(Substring(trimmedText, 1, close)), consumed |-> close + 1]

QuotedValue(trimmedText) ==
    LET ends == {i \in 1..(Len(trimmedText) - 1) :
                    CharAt(trimmedText, i) = "\"" /\ CharAt(trimmedText, i - 1) # "\\"}
    IN  IF ends = {} THEN NoValue
        ELSE [value |-> Trim(Substring(trimmedText, 1, MinOf(ends))),
              consumed |-> MinOf(ends) + 1]

ParseValue(text) ==
    LET startLen    == LeadingSpaces(text)
        trimmedText == Trim(text)
        read == IF Includes(trimmedText, "#") THEN UpToComma(trimmedText)
                ELSE IF StartsWithChar(trimmedText, "{") THEN BracedValue(trimmedText)
                ELSE IF StartsWithChar(trimmedText, "\"") THEN QuotedValue(trimmedText)
                ELSE UpToComma(trimmedText)
    IN  [value |-> CollapseSpaces(read.value), length |-> startLen + read.consumed]

\* The match of /^\s*(\w+)\s*=/: the field name and the length of the match
NoMatch == [matched |-> FALSE, name |-> <<>>, length |-> 0]

FieldNameMatch(s) ==
    LET lead  == LeadingSpaces(s)
        word  == LeadingWord(SubstringFrom(s, lead))
        gap   == LeadingSpaces(SubstringFrom(s, lead + word))
        eqAt  == lead + word + gap
    IN  IF word = 0 \/ eqAt >= Len(s) \/ CharAt(s, eqAt) # "=" THEN NoMatch
        ELSE [matched |-> TRUE, name |-> Substring(s, lead, lead + word),
              length |-> eqAt + 1]

\* The length of the match of /^\s*,/, 0 when there is none
CommaMatch(s) ==
    LET lead == LeadingSpaces(s)
    IN  IF lead < Len(s) /\ CharAt(s, lead) = "," THEN lead + 1 ELSE 0

RECURSIVE ParseFieldsLoop(_, _, _)
ParseFieldsLoop(fieldsText, cursor, fields) ==
    IF cursor >= Len(fieldsText) THEN fields
    ELSE LET nextFieldMatch == FieldNameMatch(SubstringFrom(fieldsText, cursor))
         IN  IF ~nextFieldMatch.matched THEN fields
             ELSE LET key     == ToLowerCase(nextFieldMatch.name)
                      afterEq == cursor + nextFieldMatch.length
                      parsed  == ParseValue(SubstringFrom(fieldsText, afterEq))
                      afterV  == afterEq + parsed.length
                      afterC  == afterV + CommaMatch(SubstringFrom(fieldsText, afterV))
                  IN  ParseFieldsLoop(fieldsText, afterC, MapSet(fields, key, parsed.value))

ParseFields(fieldsText) == ParseFieldsLoop(fieldsText, 0, <<>>)

\* parseField: /^\s*(\w+)\s*=\s*([\s\S]+)/ needs at least one character after
\* the equals sign; the value is parseValue of what follows it.
ParseField(fieldText) ==
    LET m == FieldNameMatch(fieldText)
    IN  IF ~m.matched \/ m.length >= Len(fieldText)
        THEN [key |-> <<>>, value |-> <<>>]
        ELSE [key |-> m.name, value |-> ParseValue(SubstringFrom(fieldText, m.length)).value]

\* ---- parseBibtex ----

\* The while loop of parseBibtex, without the interpretation of the blocks: the
\* [type, content] of every block findBlock returns, in text order.
RECURSIVE ScanBlocks(_, _)
ScanBlocks(cleanText, cursor) ==
    IF cursor >= Len(cleanText) THEN <<>>
    ELSE LET atIndex == IndexOf(cleanText, "@", cursor)
         IN  IF atIndex = -1 THEN <<>>
             ELSE LET typeLen    == LeadingWord(SubstringFrom(cleanText, atIndex + 1))
                      blockStart == atIndex + 1 + typeLen
                      block      == FindBlock(cleanText, blockStart)
                  IN  IF typeLen = 0 THEN ScanBlocks(cleanText, atIndex + 1)
                      ELSE IF ~block.found THEN ScanBlocks(cleanText, blockStart)
                      ELSE <<[type |-> ToLowerCase(Substring(cleanText, atIndex + 1, blockStart)),
                              content |-> block.content]>>
                           \o ScanBlocks(cleanText, block.endIndex)

TypeString == <<"s","t","r","i","n","g">>

TypePreamble == <<"p","r","e","a","m","b","l","e">>

TypeComment == <<"c","o","m","m","e","n","t">>

IsVariableBlock(block) == block.type = TypeString \/ block.type = TypePreamble

\* content.match(/^\s*([^,]+)\s*,/): there is a match when the first comma is
\* not the first character; the key is what precedes it, trimmed.
HasKeyMatch(content) == IndexOf(content, ",", 0) >= 1

\* Whether the block is pushed onto entries
IsEntryBlock(block) ==
    ~IsVariableBlock(block) /\ block.type # TypeComment /\ HasKeyMatch(block.content)

EntryOfBlock(block) ==
    LET comma == IndexOf(block.content, ",", 0)
    IN  [type   |-> block.type,
         key    |-> Trim(Substring(block.content, 0, comma)),
         fields |-> ParseFields(SubstringFrom(block.content, comma + 1))]

\* The body of the try of parseBibtex, applied to the blocks in order
RECURSIVE InterpretBlocks(_, _)
InterpretBlocks(blocks, doc) ==
    IF blocks = <<>> THEN doc
    ELSE LET block == Head(blocks)
             field == ParseField(block.content)
         IN  IF IsVariableBlock(block)
             THEN IF field.key # <<>> /\ field.value # <<>>
                  THEN InterpretBlocks(Tail(blocks),
                           [doc EXCEPT !.strings =
                               MapSet(@, ToLowerCase(field.key), field.value)])
                  ELSE InterpretBlocks(Tail(blocks), doc)
             ELSE IF IsEntryBlock(block)
             THEN InterpretBlocks(Tail(blocks),
                      [doc EXCEPT !.entries = Append(@, EntryOfBlock(block))])
             ELSE InterpretBlocks(Tail(blocks), doc)

EmptyDoc == [entries |-> <<>>, strings |-> <<>>]

ParseBibtex(text) == InterpretBlocks(ScanBlocks(CleanText(text), 0), EmptyDoc)

\* ------------------------------------------------------------------------
\* processEntries and its helpers
\* ------------------------------------------------------------------------

\* monthStrings
MonthStrings ==
    <<[key |-> <<"j","a","n">>, value |-> <<"J","a","n","u","a","r","y">>],
      [key |-> <<"f","e","b">>, value |-> <<"F","e","b","r","u","a","r","y">>],
      [key |-> <<"m","a","r">>, value |-> <<"M","a","r","c","h">>],
      [key |-> <<"a","p","r">>, value |-> <<"A","p","r","i","l">>],
      [key |-> <<"m","a","y">>, value |-> <<"M","a","y">>],
      [key |-> <<"j","u","n">>, value |-> <<"J","u","n","e">>],
      [key |-> <<"j","u","l">>, value |-> <<"J","u","l","y">>],
      [key |-> <<"a","u","g">>, value |-> <<"A","u","g","u","s","t">>],
      [key |-> <<"s","e","p">>, value |-> <<"S","e","p","t","e","m","b","e","r">>],
      [key |-> <<"o","c","t">>, value |-> <<"O","c","t","o","b","e","r">>],
      [key |-> <<"n","o","v">>, value |-> <<"N","o","v","e","m","b","e","r">>],
      [key |-> <<"d","e","c">>, value |-> <<"D","e","c","e","m","b","e","r">>]>>

\* { ...a, ...b }: the keys of a, then the new keys of b; b's values win
RECURSIVE Spread(_, _)
Spread(a, b) ==
    IF b = <<>> THEN a
    ELSE Spread(MapSet(a, Head(b).key, Head(b).value), Tail(b))

\* allStrings of processEntries
AllStrings(strings) == Spread(strings, MonthStrings)

\* What strings[cleanedPart] finds on Object.prototype when allStrings, an
\* object literal, has no such key of its own: the only inherited names that a
\* lowercased text can equal, each with the text join('') makes of its value
\* (the function Object as V8 prints it, and Object.prototype).
ObjectPrototype ==
    <<[key |-> <<"c","o","n","s","t","r","u","c","t","o","r">>,
       value |-> <<"f","u","n","c","t","i","o","n"," ","O","b","j","e","c","t","(",")"," ","{"," ","[","n","a","t","i","v","e"," ","c","o","d","e","]"," ","}">>],
      [key |-> <<"_","_","p","r","o","t","o","_","_">>,
       value |-> <<"[","o","b","j","e","c","t"," ","O","b","j","e","c","t","]">>]>>

\* One part of a concatenation: strings[cleanedPart] || part.replace(/"/g, '').
\* The lookup is a plain property read, so it also finds inherited properties,
\* and an empty value counts as not found.
ResolvePart(part, strings) ==
    LET cleanedPart == ToLowerCase(RemoveQuotes(part))
    IN  IF MapHas(strings, cleanedPart)
        THEN IF MapGet(strings, cleanedPart) # <<>>
             THEN MapGet(strings, cleanedPart)
             ELSE RemoveQuotes(part)
        ELSE IF MapHas(ObjectPrototype, cleanedPart)
        THEN MapGet(ObjectPrototype, cleanedPart)
        ELSE RemoveQuotes(part)

ResolveFieldValue(value, strings) ==
    IF Includes(value, "#")
    THEN LET parts == SplitOn(value, "#")
         IN  Join([i \in 1..Len(parts) |-> ResolvePart(Trim(parts[i]), strings)], <<>>)
    ELSE IF MapHas(strings, ToLowerCase(value))
    THEN MapGet(strings, ToLowerCase(value))
    ELSE value

\* name.split(/\s+/) of a trimmed name
RECURSIVE SplitOnSpaces(_)
SplitOnSpaces(s) ==
    LET at == FirstIndex([i \in 1..Len(s) |-> s[i] \in SpaceChars], 0)
    IN  IF at = -1 THEN <<s>>
        ELSE LET rest == SubstringFrom(s, at)
             IN  <<Substring(s, 0, at)>>
                 \o SplitOnSpaces(SubstringFrom(rest, LeadingSpaces(rest)))

CommaSpace == <<",", " ">>

\* The name trimmed and otherwise left as it is written
NormalizeWithoutInversion(name) == Trim(name)

NormalizeAuthorName(name) ==
    LET trimmedName == Trim(name)
    IN  IF StartsWithChar(trimmedName, "{") /\ EndsWithChar(trimmedName, "}")
        THEN Substring(trimmedName, 1, Len(trimmedName) - 1)
        ELSE IF Includes(trimmedName, ",")
        THEN LET split     == SplitOn(trimmedName, ",")
                 nameParts == [i \in 1..Len(split) |-> Trim(split[i])]
             IN  nameParts[1] \o CommaSpace \o Join(Tail(nameParts), CommaSpace)
        ELSE LET nameParts == SplitOnSpaces(trimmedName)
                 lastName  == nameParts[Len(nameParts)]
                 firstName == Join(SubSeq(nameParts, 1, Len(nameParts) - 1), <<" ">>)
             IN  IF firstName # <<>> THEN lastName \o CommaSpace \o firstName
                 ELSE lastName

QuotedAnd == <<"\"","a","n","d","\"">>

QuotedSpacedAnd == <<"\""," ","a","n","d"," ","\"">>

BareAnd == <<"a","n","d">>

SpacedAnd == <<" ","a","n","d"," ">>

\* trimmedPart.replace(/^"(.*)"$/, '$1'): the outer quotes go when the part
\* starts and ends with a quote and holds no line terminator
StripOuterQuotes(s) ==
    IF Len(s) >= 2 /\ s[1] = "\"" /\ s[Len(s)] = "\""
       /\ \A i \in 2..(Len(s) - 1) : s[i] \notin LineTerminators
    THEN SubSeq(s, 2, Len(s) - 1)
    ELSE s

\* authorField.split(/ and /i)
RECURSIVE SplitOnAnd(_)
SplitOnAnd(s) ==
    LET at == FirstIndex([i \in 1..Len(s) |->
                  i + 4 <= Len(s) /\ ToLowerCase(SubSeq(s, i, i + 4)) = SpacedAnd], 0)
    IN  IF at = -1 THEN <<s>>
        ELSE <<Substring(s, 0, at)>> \o SplitOnAnd(SubstringFrom(s, at + 5))

\* The loop of parseAuthors over the parts of a concatenation
RECURSIVE ConcatAuthors(_, _)
ConcatAuthors(parts, stringVariables) ==
    IF parts = <<>> THEN <<>>
    ELSE LET trimmedPart == Trim(Head(parts))
             cleanPart   == StripOuterQuotes(trimmedPart)
             rest        == ConcatAuthors(Tail(parts), stringVariables)
         IN  IF trimmedPart = <<>> \/ trimmedPart = QuotedAnd
                \/ trimmedPart = QuotedSpacedAnd
             THEN rest
             ELSE IF MapHas(stringVariables, trimmedPart)
             THEN <<trimmedPart>> \o rest
             ELSE IF cleanPart # <<>> /\ cleanPart # BareAnd /\ cleanPart # SpacedAnd
             THEN <<NormalizeAuthorName(cleanPart)>> \o rest
             ELSE rest

\* The loop of parseAuthors over the parts of a plain author field
RECURSIVE PlainAuthors(_, _)
PlainAuthors(authorParts, stringVariables) ==
    IF authorParts = <<>> THEN <<>>
    ELSE LET cleanPart == Trim(Head(authorParts))
             rest      == PlainAuthors(Tail(authorParts), stringVariables)
         IN  IF cleanPart = <<>> THEN rest
             ELSE IF MapHas(stringVariables, cleanPart) THEN <<cleanPart>> \o rest
             ELSE <<NormalizeAuthorName(cleanPart)>> \o rest

ParseAuthors(authorField, rawAuthorField, stringVariables) ==
    IF authorField = <<>> THEN <<>>
    ELSE IF rawAuthorField # <<>> /\ Includes(rawAuthorField, "#")
    THEN ConcatAuthors(SplitOn(rawAuthorField, "#"), stringVariables)
    ELSE PlainAuthors(SplitOnAnd(authorField), stringVariables)

FieldAuthor == <<"a","u","t","h","o","r">>

FieldCrossref == <<"c","r","o","s","s","r","e","f">>

\* entry.fields.author and entry.fields.crossref as conditions: the field is
\* there and its value is not the empty string
Truthy(fields, name) == MapHas(fields, name) /\ MapGet(fields, name) # <<>>

\* The body of the first loop of processEntries.  No code of the repository
\* sets authorsAreCanonical, so the first branch is the one taken whenever the
\* author field is truthy.
ResolveEntry(entry, strings) ==
    LET allStrings == AllStrings(strings)
        processedFields ==
            [i \in 1..Len(entry.fields) |->
                [key   |-> entry.fields[i].key,
                 value |-> ResolveFieldValue(entry.fields[i].value, allStrings)]]
    IN  [type            |-> entry.type,
         key             |-> entry.key,
         fields          |-> entry.fields,
         processedFields |-> processedFields,
         authors         |-> IF Truthy(entry.fields, FieldAuthor)
                             THEN ParseAuthors(MapGet(processedFields, FieldAuthor),
                                               MapGet(entry.fields, FieldAuthor), strings)
                             ELSE <<>>]

\* entryMap.get(targetKey): the index of the last entry with that lowercased
\* key, 0 when there is none
EntryIndex(processed, targetKey) ==
    LET hits == {i \in 1..Len(processed) : ToLowerCase(processed[i].key) = targetKey}
    IN  IF hits = {} THEN 0 ELSE CHOOSE i \in hits : \A j \in hits : j <= i

\* The entry of a built list that the crossref of entry i names: its index, 0
\* when entry i has no crossref or names no entry of the list
TargetOf(entries, i) ==
    IF Truthy(entries[i].fields, FieldCrossref)
    THEN EntryIndex(entries, ToLowerCase(MapGet(entries[i].fields, FieldCrossref)))
    ELSE 0

\* InheritFields without the hasOwnProperty test: every field of the target
\* is copied, also over a field the entry has
RECURSIVE InheritFieldsOverwriting(_, _, _)
InheritFieldsOverwriting(entry, targetFields, allStrings) ==
    IF targetFields = <<>> THEN entry
    ELSE InheritFieldsOverwriting(
             [entry EXCEPT
                 !.fields = MapSet(@, Head(targetFields).key, Head(targetFields).value),
                 !.processedFields =
                     MapSet(@, Head(targetFields).key,
                            ResolveFieldValue(Head(targetFields).value, allStrings))],
             Tail(targetFields), allStrings)

\* The for-in loop over targetEntry.fields: the fields the entry lacks are
\* copied, raw and resolved
RECURSIVE InheritFields(_, _, _)
InheritFields(entry, targetFields, allStrings) ==
    IF targetFields = <<>> THEN entry
    ELSE LET fieldKey == Head(targetFields).key
             raw      == Head(targetFields).value
         IN  IF MapHas(entry.fields, fieldKey)
             THEN InheritFields(entry, Tail(targetFields), allStrings)
             ELSE InheritFields(
                      [entry EXCEPT
                          !.fields = MapSet(@, fieldKey, raw),
                          !.processedFields =
                              MapSet(@, fieldKey, ResolveFieldValue(raw, allStrings))],
                      Tail(targetFields), allStrings)

\* The second loop of processEntries, from entry i on.  The entries are
\* updated in place, so a target that was handled earlier in the loop is
\* read with the fields it inherited.
RECURSIVE CrossrefLoop(_, _, _)
CrossrefLoop(processed, i, allStrings) ==
    IF i > Len(processed) THEN processed
    ELSE LET entry  == processed[i]
             target == IF Truthy(entry.fields, FieldCrossref)
                       THEN EntryIndex(processed,
                                ToLowerCase(MapGet(entry.fields, FieldCrossref)))
                       ELSE 0
         IN  IF target = 0 THEN CrossrefLoop(processed, i + 1, allStrings)
             ELSE CrossrefLoop(
                      [processed EXCEPT
                          ![i] = InheritFields(entry, processed[target].fields, allStrings)],
                      i + 1, allStrings)

ProcessEntries(entries, strings) ==
    CrossrefLoop([i \in 1..Len(entries) |-> ResolveEntry(entries[i], strings)],
                 1, AllStrings(strings))

\* const processed = entries: the loops write to the caller's own entries
SameEntries(entries) == [entries |-> entries, isCopy |-> FALSE]

\* JSON.parse(JSON.stringify(entries)): the loops write to a copy that shares
\* no object with the caller's entries
CopyOfEntries(entries) == [entries |-> entries, isCopy |-> TRUE]

\* A call of processEntries: what it returns, and what the caller's entries and
\* strings hold when it has returned.  Every write of the two loops goes to
\* processed and its entries; allStrings is a new object and strings is only
\* read.
ProcessEntriesCall(entries, strings) ==
    LET processed == CopyOfEntries(entries)
        result    == ProcessEntries(processed.entries, strings)
    IN  [result  |-> result,
         entries |-> IF processed.isCopy THEN entries ELSE result,
         strings |-> strings]

\* ------------------------------------------------------------------------
\* serializeBibtex
\* ------------------------------------------------------------------------

\* One line per variable: @string{key = "value"} and a blank line
RECURSIVE SerializeStrings(_)
SerializeStrings(strings) ==
    IF strings = <<>> THEN <<>>
    ELSE <<"@","s","t","r","i","n","g","{">> \o Head(strings).key
         \o <<" ","=", " ","\"">> \o Head(strings).value \o <<"\"","}","\n","\n">>
         \o SerializeStrings(Tail(strings))

\* author.replace(/"/g, '\\"')
EscapeQuotes(s) == Join(SplitOn(s, "\""), <<"\\", "\"">>)

\* The author as it stands in a concatenation: a variable's key bare, any
\* other author quoted
AuthorPart(author, strings) ==
    IF MapHas(strings, author) THEN author
    ELSE <<"\"">> \o EscapeQuotes(author) \o <<"\"">>

\* hasVariables set only when every author is a variable
HasOnlyVariables(authors, strings) == \A i \in 1..Len(authors) : MapHas(strings, authors[i])

HasVariables(authors, strings) == \E i \in 1..Len(authors) : MapHas(strings, authors[i])

AuthorPrefix == <<" "," ","a","u","t","h","o","r"," ","="," ">>

ConcatSeparator == <<" ","#"," ","\""," ","a","n","d"," ","\""," ","#"," ">>

SerializeAuthors(authors, strings) ==
    IF HasVariables(authors, strings)
    THEN AuthorPrefix
         \o Join([i \in 1..Len(authors) |-> AuthorPart(authors[i], strings)],
                 ConcatSeparator)
    ELSE AuthorPrefix \o <<"{">> \o Join(authors, SpacedAnd) \o <<"}">>

\* entry.authors, which parseBibtex leaves undefined
EntryAuthors(entry) == IF "authors" \in DOMAIN entry THEN entry.authors ELSE <<>>

\* The line of the field at position index of the entry
SerializeField(entry, index, strings) ==
    LET key == entry.fields[index].key
    IN  (IF ToLowerCase(key) = FieldAuthor /\ Len(EntryAuthors(entry)) > 0
         THEN SerializeAuthors(EntryAuthors(entry), strings)
         ELSE <<" "," ">> \o key \o <<" ","="," ","{">>
              \o entry.fields[index].value \o <<"}">>)
        \o (IF index < Len(entry.fields) THEN <<",">> ELSE <<>>)
        \o <<"\n">>

SerializeEntry(entry, strings) ==
    <<"@">> \o entry.type \o <<"{">> \o entry.key \o <<",","\n">>
    \o Join([i \in 1..Len(entry.fields) |-> SerializeField(entry, i, strings)], <<>>)
    \o <<"}","\n","\n">>

SerializeBibtex(entries, strings) ==
    SerializeStrings(strings)
    \o Join([i \in 1..Len(entries) |-> SerializeEntry(entries[i], strings)], <<>>)

\* ------------------------------------------------------------------------
\* The document pipeline: a text is put together from fragments, parsed,
\* resolved, serialized, and the output parsed and resolved again.
\* ------------------------------------------------------------------------

\* How many fragments a text is made of
MaxFragments == 2

\* an entry whose author is written first name first:
\*   @article{k1, author = {John Smith}}
FragAuthorPlain ==
    <<"@","a","r","t","i","c","l","e","{","k","1",","," ","a","u","t","h","o",
      "r"," ","="," ","{","J","o","h","n"," ","S","m","i","t","h","}","}">>

\* two authors and a year:
\*   @article{k1, author = {Smith, John and Doe, Jane}, year = {2020}}
FragAuthorList ==
    <<"@","a","r","t","i","c","l","e","{","k","1",","," ","a","u","t","h","o",
      "r"," ","="," ","{","S","m","i","t","h",","," ","J","o","h","n"," ","a",
      "n","d"," ","D","o","e",","," ","J","a","n","e","}",","," ","y","e","a",
      "r"," ","="," ","{","2","0","2","0","}","}">>

\* the variable me:
\*   @string{me = "Smith, John"}
FragStringMe ==
    <<"@","s","t","r","i","n","g","{","m","e"," ","="," ","\"","S","m","i",
      "t","h",","," ","J","o","h","n","\"","}","\n">>

\* an author field that is a bare variable reference:
\*   @article{k1, author = me}
FragAuthorVariable ==
    <<"@","a","r","t","i","c","l","e","{","k","1",","," ","a","u","t","h","o",
      "r"," ","="," ","m","e","}">>

\* an author field that is a concatenation:
\*   @article{k1, author = me # " and " # "Doe, Jane"}
FragAuthorConcat ==
    <<"@","a","r","t","i","c","l","e","{","k","1",","," ","a","u","t","h","o",
      "r"," ","="," ","m","e"," ","#"," ","\""," ","a","n","d"," ","\""," ",
      "#"," ","\"","D","o","e",","," ","J","a","n","e","\"","}">>

\* a document variable with the name of a month:
\*   @string{jan = "Janus"}
FragStringJan ==
    <<"@","s","t","r","i","n","g","{","j","a","n"," ","="," ","\"","J","a",
      "n","u","s","\"","}","\n">>

\* a bare month reference:
\*   @article{k3, month = jan}
FragMonth ==
    <<"@","a","r","t","i","c","l","e","{","k","3",","," ","m","o","n","t","h",
      " ","="," ","j","a","n","}">>

\* a block that is never closed:
\*   @article{k1, title = {Unterminated
FragUnterminated ==
    <<"@","a","r","t","i","c","l","e","{","k","1",","," ","t","i","t","l","e",
      " ","="," ","{","U","n","t","e","r","m","i","n","a","t","e","d">>

\* a block that is never closed and holds an at sign:
\*   @article{k1, note = {mail a@comment.org
FragUnterminatedMail ==
    <<"@","a","r","t","i","c","l","e","{","k","1",","," ","n","o","t","e"," ",
      "="," ","{","m","a","i","l"," ","a","@","c","o","m","m","e","n","t",".",
      "o","r","g","\n">>

\* a well-formed entry:
\*   @book{k2, title = {x}}
FragBook ==
    <<"@","b","o","o","k","{","k","2",","," ","t","i","t","l","e"," ","="," ",
      "{","x","}","}">>

\* a parenthesised block with an open brace inside:
\*   @article(k1, title = {x)
FragParen ==
    <<"@","a","r","t","i","c","l","e","(","k","1",","," ","t","i","t","l","e",
      " ","="," ","{","x",")">>

\* a braced value followed by a field that holds a #:
\*   @article{k1, title = {A}, note = {x # y}}
FragHashLater ==
    <<"@","a","r","t","i","c","l","e","{","k","1",","," ","t","i","t","l","e",
      " ","="," ","{","A","}",","," ","n","o","t","e"," ","="," ","{","x"," ",
      "#"," ","y","}","}">>

\* an entry with a crossref and its own publisher:
\*   @book{k2, crossref = {k1}, publisher = {Other}}
FragChild ==
    <<"@","b","o","o","k","{","k","2",","," ","c","r","o","s","s","r","e","f",
      " ","="," ","{","k","1","}",","," ","p","u","b","l","i","s","h","e","r",
      " ","="," ","{","O","t","h","e","r","}","}","\n">>

\* an entry to inherit from:
\*   @article{k1, publisher = {ACME}, year = 2020}
FragParent ==
    <<"@","a","r","t","i","c","l","e","{","k","1",","," ","p","u","b","l","i",
      "s","h","e","r"," ","="," ","{","A","C","M","E","}",","," ","y","e","a",
      "r"," ","="," ","2","0","2","0","}","\n">>

\* a comment line:
\*   % a comment
FragLineComment ==
    <<"%"," ","a"," ","c","o","m","m","e","n","t","\n">>

\* a comment block:
\*   @comment{ignored}
FragCommentBlock ==
    <<"@","c","o","m","m","e","n","t","{","i","g","n","o","r","e","d","}">>

\* upper case letters, a quoted value, a trailing comma:
\*   @Article{K1, Title = "Quoted  value",}
FragMixedCase ==
    <<"@","A","r","t","i","c","l","e","{","K","1",","," ","T","i","t","l","e",
      " ","="," ","\"","Q","u","o","t","e","d"," "," ","v","a","l","u","e",
      "\"",",","}">>

\* an entry whose bare value holds an open brace and is cut at its comma:
\*   @article{k1, title = a{b, c}}
FragBareBrace ==
    <<"@","a","r","t","i","c","l","e","{","k","1",","," ","t","i","t","l","e"," ","="," ","a","{","b",","," ","c","}","}">>

\* an entry that gives one field twice, in two letter cases:
\*   @article{k1, title = {A}, Title = {B}}
FragDupField ==
    <<"@","a","r","t","i","c","l","e","{","k","1",","," ","t","i","t","l","e"," ","="," ","{","A","}",","," ","T","i","t","l","e"," ","="," ","{","B","}","}">>

\* a definition of the variable me written in capitals:
\*   @string{ME = {Doe, Jane}}
FragStringMeUpper ==
    <<"@","s","t","r","i","n","g","{","M","E"," ","="," ","{","D","o","e",","," ","J","a","n","e","}","}","\n">>

\* a definition of the variable me with the empty text:
\*   @string{me = ""}
FragStringMeEmpty ==
    <<"@","s","t","r","i","n","g","{","m","e"," ","="," ","\"","\"","}","\n">>

Fragments ==
    {FragAuthorPlain,
     FragAuthorList,
     FragStringMe,
     FragAuthorVariable,
     FragAuthorConcat,
     FragStringJan,
     FragMonth,
     FragUnterminated,
     FragUnterminatedMail,
     FragBook,
     FragParen,
     FragHashLater,
     FragChild,
     FragParent,
     FragLineComment,
     FragCommentBlock,
     FragMixedCase,
     FragBareBrace,
     FragDupField,
     FragStringMeUpper,
     FragStringMeEmpty}

VARIABLES
    pc,          \* the step the run is at
    parts,       \* the fragments the text was put together from
    text,        \* the text given to parseBibtex
    blocks,      \* the blocks findBlock returned while text was parsed
    doc,         \* parseBibtex(text): entries and strings
    processed,   \* processEntries(doc.entries, doc.strings)
    again,       \* processEntries(processed, doc.strings)
    output,      \* serializeBibtex(processed, doc.strings)
    doc2,        \* parseBibtex(output)
    processed2,  \* processEntries(doc2.entries, doc2.strings)
    items,       \* the fields a field list was written from
    fieldsText,  \* the text given to parseFields
    fields,      \* parseFields(fieldsText)
    state,       \* the state of useBibTeX: entries, stringVariables, processedEntries
    cursor,      \* the entry the crossref loop of processEntries is at
    pending,     \* the fields of the target that the loop has still to look at
    nameParts,   \* the pieces an author name was put together from
    authorName,  \* the name given to normalizeAuthorName
    normalized,  \* normalizeAuthorName(authorName)
    renormalized, \* normalizeAuthorName(normalized)
    ui,          \* the state of citationReducer in CitationProvider
    stateRef,    \* what the handlers read of stateRef.current: cite.data and filters
    heap,        \* how many objects were created since the provider was mounted
    result,      \* what the last action handler returned
    timers,      \* updateEntryTimeoutRef.current: call id to the time its timer is due
    clock,       \* the time in ms
    calls,       \* the updateEntry calls made so far
    attempt,     \* fetchWithRetry's loop variable
    fetched,     \* what each fetch attempt of the call came to
    waited,      \* the delays the call slept for
    settled      \* what the call returned or threw, once it has

vars == <<pc, parts, text, blocks, doc, processed, again, output, doc2, processed2,
          items, fieldsText, fields, state, cursor, pending, nameParts, authorName, normalized,
          renormalized, ui, stateRef, heap, result, timers, clock, calls,
          attempt, fetched, waited, settled>>

\* The variables of the document pipeline and of the field-list parser
docVars == <<parts, text, blocks, output, doc2, processed2>>

fieldVars == <<items, fieldsText, fields>>

\* The variables of the hook, of the crossref loop run step by step and of the
\* author name normalizer
hookVars == <<state>>

loopVars == <<cursor, pending>>

nameVars == <<nameParts, authorName, normalized>>

\* The variables of CitationProvider, of its updateEntry timers and of
\* fetchWithRetry
citeVars == <<ui, stateRef, heap, result>>

timerVars == <<timers, clock, calls>>

fetchVars == <<attempt, fetched, waited, settled>>

appVars == <<renormalized, citeVars, timerVars, fetchVars>>

\* Every variable of the engine but pc
engineVars == <<parts, text, blocks, doc, processed, again, output, doc2, processed2,
                items, fieldsText, fields, state, cursor, pending,
                nameParts, authorName, normalized>>

\* useState's initial value (filename and isLoaded play no part in the engine)
EmptyState == [entries |-> <<>>, stringVariables |-> <<>>, processedEntries |-> <<>>]

\* No crossref loop is under way; pending holds the target's fields while one
\* entry is handled
NoPending == <<>>

\* undefined, where a string may stand
Undefined == <<"undefined">>

\* initialState.form
InitialForm ==
    [isDirty         |-> FALSE,
     isSubmitting    |-> FALSE,
     validation      |-> [isValid |-> TRUE, errors |-> <<>>, fieldErrors |-> <<>>],
     editingEntry    |-> Undefined,
     editingVariable |-> Undefined]

\* initialState.filters; an empty tuple is a bound of yearRange that is not set
InitialFilters ==
    [searchText    |-> "",
     authorFilter  |-> "",
     yearRange     |-> [from |-> <<>>, to |-> <<>>],
     typeFilter    |-> "all",
     customFilters |-> <<>>]

\* initialState.view
InitialView ==
    [currentTab |-> "literature", sortBy |-> "author", sortDirection |-> "asc", displayMode |-> "card"]

\* initialState.  A Cite instance is its identity, inst, and its data; the
\* instance made for initialState when the module is loaded is instance 0.
InitialState ==
    [cite        |-> [inst |-> 0, data |-> <<>>],
     citeVersion |-> 0,
     variables   |-> <<>>,
     selection   |-> [type |-> "entry", items |-> <<>>],
     filters     |-> InitialFilters,
     view        |-> InitialView,
     form        |-> InitialForm,
     filename    |-> Undefined,
     isLoaded    |-> FALSE]

\* What the handlers read of a state that stateRef.current holds
StateRefOf(s) == [data |-> s.cite.data, filters |-> s.filters]

\* No action handler has returned anything
NoResult == [op |-> "none", id |-> Undefined, value |-> Undefined]

\* The engine is not in use
EngineIdle ==
    /\ parts = <<>>
    /\ text = <<>>
    /\ blocks = <<>>
    /\ doc = EmptyDoc
    /\ processed = <<>>
    /\ again = <<>>
    /\ output = <<>>
    /\ doc2 = EmptyDoc
    /\ processed2 = <<>>
    /\ items = <<>>
    /\ fieldsText = <<>>
    /\ fields = <<>>
    /\ state = EmptyState
    /\ cursor = 0
    /\ pending = NoPending
    /\ nameParts = <<>>
    /\ authorName = <<>>
    /\ normalized = <<>>

\* The provider is mounted and nothing was called, and no fetch is under way
AppIdle ==
    /\ renormalized = <<>>
    /\ ui = InitialState
    /\ stateRef = StateRefOf(InitialState)
    /\ heap = 0
    /\ result = NoResult
    /\ timers = <<>>
    /\ clock = 0
    /\ calls = <<>>
    /\ attempt = 0
    /\ fetched = <<>>
    /\ waited = <<>>
    /\ settled = <<>>

Init ==
    /\ AppIdle
    /\ pc = "edit"
    /\ parts = <<>>
    /\ text = <<>>
    /\ blocks = <<>>
    /\ doc = EmptyDoc
    /\ processed = <<>>
    /\ again = <<>>
    /\ output = <<>>
    /\ doc2 = EmptyDoc
    /\ processed2 = <<>>
    /\ items = <<>>
    /\ fieldsText = <<>>
    /\ fields = <<>>
    /\ state = EmptyState
    /\ cursor = 0
    /\ pending = NoPending
    /\ nameParts = <<>>
    /\ authorName = <<>>
    /\ normalized = <<>>

\* The caller appends a fragment to the text it will load
AppendFragment(f) ==
    /\ pc = "edit"
    /\ Len(parts) < MaxFragments
    /\ parts' = Append(parts, f)
    /\ text' = text \o f
    /\ UNCHANGED <<pc, blocks, doc, processed, again, output, doc2, processed2, fieldVars, hookVars, loopVars, nameVars, appVars>>

Parse ==
    /\ pc = "edit"
    /\ blocks' = ScanBlocks(CleanText(text), 0)
    /\ doc' = ParseBibtex(text)
    /\ pc' = "parsed"
    /\ UNCHANGED <<parts, text, processed, again, output, doc2, processed2, fieldVars, hookVars, loopVars, nameVars, appVars>>

Process ==
    /\ pc = "parsed"
    /\ LET call == ProcessEntriesCall(doc.entries, doc.strings)
       IN  /\ processed' = call.result
           /\ doc' = [entries |-> call.entries, strings |-> call.strings]
    /\ pc' = "processed"
    /\ UNCHANGED <<parts, text, blocks, again, output, doc2, processed2, fieldVars, hookVars, loopVars, nameVars, appVars>>

Serialize ==
    /\ pc = "processed"
    /\ output' = SerializeBibtex(processed, doc.strings)
    /\ pc' = "serialized"
    /\ UNCHANGED <<parts, text, blocks, doc, processed, again, doc2, processed2, fieldVars, hookVars, loopVars, nameVars, appVars>>

Reparse ==
    /\ pc = "serialized"
    /\ doc2' = ParseBibtex(output)
    /\ pc' = "reparsed"
    /\ UNCHANGED <<parts, text, blocks, doc, processed, again, output, processed2, fieldVars, hookVars, loopVars, nameVars, appVars>>

Reprocess ==
    /\ pc = "reparsed"
    /\ LET call == ProcessEntriesCall(doc2.entries, doc2.strings)
       IN  /\ processed2' = call.result
           /\ doc2' = [entries |-> call.entries, strings |-> call.strings]
    /\ pc' = "reprocessed"
    /\ UNCHANGED <<parts, text, blocks, doc, processed, again, output, fieldVars, hookVars, loopVars, nameVars, appVars>>

Next ==
    \/ \E f \in Fragments : AppendFragment(f)
    \/ Parse
    \/ Process
    \/ Serialize
    \/ Reparse
    \/ Reprocess

Spec == Init /\ [][Next]_vars

\* ------------------------------------------------------------------------
\* The resolver on its own: the caller builds an entry list and a variable
\* table, resolves them, and resolves the result once more.
\* ------------------------------------------------------------------------

\* How many entries a list holds
MaxEntries == 3

Keys == {<<"k","1">>, <<"k","2">>, <<"k","3">>}

\* The key an entry may name in its crossref: k2 names k1, k3 names k2 and k1
\* names k3, so that chains and cycles of crossrefs can be built
CrossrefOf(key) ==
    IF key = <<"k","2">> THEN <<"k","1">>
    ELSE IF key = <<"k","3">> THEN <<"k","2">>
    ELSE <<"k","3">>

FieldPublisher == <<"p","u","b","l","i","s","h","e","r">>

TypeArticle == <<"a","r","t","i","c","l","e">>

\* A field the entry does not have
Absent == <<"absent">>

\* The raw value an entry may give its publisher field: two literals and a
\* bare month reference
PublisherOf(key) ==
    IF key = <<"k","1">> THEN <<"A","C","M","E">>
    ELSE IF key = <<"k","2">> THEN <<"O","t","h","e","r">>
    ELSE <<"j","a","n">>

FieldIf(name, value) ==
    IF value = Absent THEN <<>> ELSE <<[key |-> name, value |-> value]>>

MakeEntry(key, crossref, publisher) ==
    [type   |-> TypeArticle,
     key    |-> key,
     fields |-> FieldIf(FieldCrossref, crossref) \o FieldIf(FieldPublisher, publisher)]

EntryPool ==
    UNION {{MakeEntry(k, c, p) :
               c \in {Absent, CrossrefOf(k)}, p \in {Absent, PublisherOf(k)}} :
           k \in Keys}

\* The variable tables: none, or one that defines a variable named like a
\* month and one that the literal ACME matches up to letter case
StringTables ==
    {<<>>,
     <<[key |-> <<"j","a","n">>, value |-> <<"J","a","n","u","s">>],
       [key |-> <<"a","c","m","e">>, value |-> <<"A","c","m","e"," ","C","o","r","p">>]>>}

InitResolve ==
    /\ AppIdle
    /\ pc = "build"
    /\ doc \in {[entries |-> <<>>, strings |-> t] : t \in StringTables}
    /\ parts = <<>>
    /\ text = <<>>
    /\ blocks = <<>>
    /\ processed = <<>>
    /\ again = <<>>
    /\ output = <<>>
    /\ doc2 = EmptyDoc
    /\ processed2 = <<>>
    /\ items = <<>>
    /\ fieldsText = <<>>
    /\ fields = <<>>
    /\ state = EmptyState
    /\ cursor = 0
    /\ pending = NoPending
    /\ nameParts = <<>>
    /\ authorName = <<>>
    /\ normalized = <<>>

AddEntry(e) ==
    /\ pc = "build"
    /\ Len(doc.entries) < MaxEntries
    /\ doc' = [doc EXCEPT !.entries = Append(@, e)]
    /\ UNCHANGED <<pc, processed, again, docVars, fieldVars, hookVars, loopVars, nameVars, appVars>>

Resolve ==
    /\ pc = "build"
    /\ LET call == ProcessEntriesCall(doc.entries, doc.strings)
       IN  /\ processed' = call.result
           /\ doc' = [entries |-> call.entries, strings |-> call.strings]
    /\ pc' = "resolved"
    /\ UNCHANGED <<again, docVars, fieldVars, hookVars, loopVars, nameVars, appVars>>

ResolveAgain ==
    /\ pc = "resolved"
    /\ LET call == ProcessEntriesCall(processed, doc.strings)
       IN  /\ again' = call.result
           /\ processed' = call.entries
           /\ doc' = [doc EXCEPT !.strings = call.strings]
    /\ pc' = "resolvedAgain"
    /\ UNCHANGED << docVars, fieldVars, hookVars, loopVars, nameVars, appVars>>

NextResolve ==
    \/ \E e \in EntryPool : AddEntry(e)
    \/ Resolve
    \/ ResolveAgain

SpecResolve == InitResolve /\ [][NextResolve]_vars

\* ------------------------------------------------------------------------
\* The field-list parser on its own: the caller writes a field list, one
\* field after the other, and parseFields reads it.
\* ------------------------------------------------------------------------

\* How many fields a field list holds
MaxItems == 2

FieldTitle == <<"t","i","t","l","e">>

FieldNote == <<"n","o","t","e">>

\* A field as the caller writes it: its name, the way its value is delimited
\* and what stands between the delimiters
Item(name, kind, body) == [name |-> name, kind |-> kind, body |-> body]

ItemValues ==
    {<<"brace", <<"A">>>>,
     <<"brace", <<"a"," ","{","b","}"," ","c">>>>,
     <<"brace", <<"x"," ","#"," ","y">>>>,
     <<"quote", <<"B">>>>,
     <<"bare",  <<"m","e">>>>,
     <<"bare",  <<"m","e"," ","#"," ","y","o","u">>>>,
     <<"brace", <<"j","a","n">>>>,
     <<"quote", <<"M","e">>>>,
     <<"brace", <<"a","\t","b">>>>,
     <<"quote", <<"a"," "," ","b">>>>,
     <<"bare",  <<"c","o","n","s","t","r","u","c","t","o","r"," ","#"," ","\"","x","\"">>>>}

\* The variable tables a field list is resolved under: none, or one variable
VariableTables ==
    {<<>>, <<[key |-> <<"m","e">>, value |-> <<"S","m","i","t","h",","," ","J","o","h","n">>]>>}

ItemPool == {Item(n, v[1], v[2]) : n \in {FieldTitle, FieldNote}, v \in ItemValues}

\* name = {body}, name = "body" or name = body
ItemText(item) ==
    item.name \o <<" ","="," ">>
    \o (IF item.kind = "brace" THEN <<"{">> \o item.body \o <<"}">>
        ELSE IF item.kind = "quote" THEN <<"\"">> \o item.body \o <<"\"">>
        ELSE item.body)

InitFields ==
    /\ AppIdle
    /\ pc = "write"
    /\ items = <<>>
    /\ fieldsText = <<>>
    /\ fields = <<>>
    /\ state = EmptyState
    /\ cursor = 0
    /\ pending = NoPending
    /\ nameParts = <<>>
    /\ authorName = <<>>
    /\ normalized = <<>>
    /\ doc \in {[entries |-> <<>>, strings |-> t] : t \in VariableTables}
    /\ processed = <<>>
    /\ again = <<>>
    /\ parts = <<>>
    /\ text = <<>>
    /\ blocks = <<>>
    /\ output = <<>>
    /\ doc2 = EmptyDoc
    /\ processed2 = <<>>

\* The field list is what follows the comma after the citation key: fields
\* separated by a comma
AppendItem(item) ==
    /\ pc = "write"
    /\ Len(items) < MaxItems
    /\ items' = Append(items, item)
    /\ fieldsText' = (IF items = <<>> THEN <<" ">> ELSE fieldsText \o <<",", " ">>)
                     \o ItemText(item)
    /\ UNCHANGED <<pc, fields, doc, processed, again, docVars, hookVars, loopVars, nameVars, appVars>>

ReadFields ==
    /\ pc = "write"
    /\ fields' = ParseFields(fieldsText)
    /\ pc' = "read"
    /\ UNCHANGED <<items, fieldsText, doc, processed, again, docVars, hookVars, loopVars, nameVars, appVars>>

\* The fields read become the fields of an entry, which processEntries resolves
ResolveFields ==
    /\ pc = "read"
    /\ processed' = ProcessEntriesCall(<<[type |-> TypeArticle, key |-> <<"k","1">>,
                                          fields |-> fields]>>, doc.strings).result
    /\ pc' = "fieldsResolved"
    /\ UNCHANGED <<items, fieldsText, fields, doc, again, docVars, hookVars, loopVars, nameVars, appVars>>

NextFields ==
    \/ \E item \in ItemPool : AppendItem(item)
    \/ ReadFields
    \/ ResolveFields

SpecFields == InitFields /\ [][NextFields]_vars

\* ------------------------------------------------------------------------
\* The hook useBibTeX: a file is loaded, and string variables are added and
\* updated; every change resolves the entries again.
\* ------------------------------------------------------------------------

\* a bare reference in capitals:
\*   @article{k1, note = ME}
ContentBareUpper ==
    <<"@","a","r","t","i","c","l","e","{","k","1",","," ","n","o","t","e"," ","="," ","M","E","}">>

\* a concatenation whose segments are references in mixed case:
\*   @article{k1, note = Me # " and " # ED}
ContentConcatMixed ==
    <<"@","a","r","t","i","c","l","e","{","k","1",","," ","n","o","t","e"," ","="," ","M","e"," ","#"," ","\""," ","a","n","d"," ","\""," ","#"," ","E","D","}">>

\* a variable defined in mixed case and referred to in lower case:
\*   @string{Ed = "Doe, Jane"}
\*   @article{k2, note = ed}
ContentStringMixed ==
    <<"@","s","t","r","i","n","g","{","E","d"," ","="," ","\"","D","o","e",","," ","J","a","n","e","\"","}","\n","@","a","r","t","i","c","l","e","{","k","2",","," ","n","o","t","e"," ","="," ","e","d","}">>

\* an entry without references:
\*   @book{k3, title = {x}}
ContentPlain ==
    <<"@","b","o","o","k","{","k","3",","," ","t","i","t","l","e"," ","="," ","{","x","}","}">>

HookContents == {ContentBareUpper, ContentConcatMixed, ContentStringMixed, ContentPlain}

\* The keys and values the user gives a string variable
HookKeys == {<<"m","e">>, <<"M","e">>, <<"e","d">>}

HookValues == {<<"S","m","i","t","h",","," ","J","o","h","n">>, <<"D","o","e",","," ","J","a","n","e">>}

InitHook ==
    /\ AppIdle
    /\ pc = "hook"
    /\ state = EmptyState
    /\ cursor = 0
    /\ pending = NoPending
    /\ nameParts = <<>>
    /\ authorName = <<>>
    /\ normalized = <<>>
    /\ doc = EmptyDoc
    /\ processed = <<>>
    /\ again = <<>>
    /\ parts = <<>>
    /\ text = <<>>
    /\ blocks = <<>>
    /\ output = <<>>
    /\ doc2 = EmptyDoc
    /\ processed2 = <<>>
    /\ items = <<>>
    /\ fieldsText = <<>>
    /\ fields = <<>>

\* reprocessEntries
ReprocessWithoutVariables(entries, strings) == ProcessEntriesCall(entries, <<>>).result

ReprocessEntries(entries, strings) == ProcessEntriesCall(entries, strings).result

\* The state loadFile sets for what parseBibtex returned
LoadedState(parsed) ==
    [entries          |-> parsed.entries,
     stringVariables  |-> parsed.strings,
     processedEntries |-> ReprocessEntries(parsed.entries, parsed.strings)]

\* loadFile(content, filename)
LoadFile(content) ==
    /\ pc = "hook"
    /\ state' = LoadedState(ParseBibtex(content))
    /\ UNCHANGED <<pc, doc, processed, again, docVars, fieldVars, loopVars, nameVars, appVars>>

\* updateStringVariable(key, value)
UpdateStringVariable(key, value) ==
    /\ pc = "hook"
    /\ LET newStringVariables == MapSet(state.stringVariables, key, value)
       IN  state' = [state EXCEPT
                        !.stringVariables  = newStringVariables,
                        !.processedEntries = ReprocessEntries(state.entries,
                                                              newStringVariables)]
    /\ UNCHANGED <<pc, doc, processed, again, docVars, fieldVars, loopVars, nameVars, appVars>>

\* prev.stringVariables[key] as a condition: a non-empty value of its own, or
\* a property inherited from Object.prototype
HasTruthyProperty(strings, key) ==
    IF MapHas(strings, key) THEN MapGet(strings, key) # <<>>
    ELSE MapHas(ObjectPrototype, key)

\* addStringVariable(key, value): the updater throws, and the state stays,
\* when the key is taken
AddStringVariable(key, value) ==
    /\ pc = "hook"
    /\ ~HasTruthyProperty(state.stringVariables, key)
    /\ LET newStringVariables == MapSet(state.stringVariables, key, value)
       IN  state' = [state EXCEPT
                        !.stringVariables  = newStringVariables,
                        !.processedEntries = ReprocessEntries(state.entries,
                                                              newStringVariables)]
    /\ UNCHANGED <<pc, doc, processed, again, docVars, fieldVars, loopVars, nameVars, appVars>>

\* How many entries the hook is given to hold
MaxHookEntries == 2

\* The keys the user gives an entry, the empty text among them
HookEntryKeys == {<<"k","1">>, <<>>}

\* The entries the user adds: each has a note that refers to a variable
HookEntryPool ==
    {[type |-> TypeArticle, key |-> k,
      fields |-> <<[key |-> FieldNote, value |-> <<"m","e">>]>>] : k \in HookEntryKeys}

\* The updates the user makes: a new key, or new fields
HookUpdates ==
    {[key |-> k] : k \in HookEntryKeys}
        \cup {[fields |-> <<[key |-> FieldNote, value |-> <<"e","d">>]>>]}

\* prev.entries.findIndex(e => e.key === key), counted from 1; 0 is -1
FindIndexByKey(entries, key) ==
    LET hits == {i \in 1..Len(entries) : entries[i].key = key}
    IN  IF hits = {} THEN 0 ELSE CHOOSE i \in hits : \A j \in hits : i <= j

\* addEntry(entry): the updater throws, and the state stays, when an entry
\* has the key
HookAddEntry(entry) ==
    /\ pc = "hook"
    /\ Len(state.entries) < MaxHookEntries
    /\ FindIndexByKey(state.entries, entry.key) = 0
    /\ LET newEntries == Append(state.entries, entry)
       IN  state' = [state EXCEPT
                        !.entries          = newEntries,
                        !.processedEntries = ReprocessEntries(newEntries,
                                                              state.stringVariables)]
    /\ UNCHANGED <<pc, doc, processed, again, docVars, fieldVars, loopVars, nameVars, appVars>>

\* updates.key && updates.key !== key
ChangesKey(updates, key) ==
    "key" \in DOMAIN updates /\ updates.key # <<>> /\ updates.key # key

\* updateEntry(key, updates): the updater throws, and the state stays, when
\* no entry has the key or when the key is changed to one that an entry has
HookUpdateEntry(key, updates) ==
    /\ pc = "hook"
    /\ FindIndexByKey(state.entries, key) # 0
    /\ ChangesKey(updates, key) => FindIndexByKey(state.entries, updates.key) = 0
    /\ LET entryIndex == FindIndexByKey(state.entries, key)
           newEntries == [state.entries EXCEPT ![entryIndex] = SpreadRecord(@, updates)]
       IN  state' = [state EXCEPT
                        !.entries          = newEntries,
                        !.processedEntries = ReprocessEntries(newEntries,
                                                              state.stringVariables)]
    /\ UNCHANGED <<pc, doc, processed, again, docVars, fieldVars, loopVars, nameVars, appVars>>

\* deleteEntry(key)
HookDeleteEntry(key) ==
    /\ pc = "hook"
    /\ LET newEntries == SelectSeq(state.entries, LAMBDA e : e.key # key)
       IN  state' = [state EXCEPT
                        !.entries          = newEntries,
                        !.processedEntries = ReprocessEntries(newEntries,
                                                              state.stringVariables)]
    /\ UNCHANGED <<pc, doc, processed, again, docVars, fieldVars, loopVars, nameVars, appVars>>

\* deleteStringVariable(key)
DeleteStringVariable(key) ==
    /\ pc = "hook"
    /\ LET newStringVariables == MapDelete(state.stringVariables, key)
       IN  state' = [state EXCEPT
                        !.stringVariables  = newStringVariables,
                        !.processedEntries = ReprocessEntries(state.entries,
                                                              newStringVariables)]
    /\ UNCHANGED <<pc, doc, processed, again, docVars, fieldVars, loopVars, nameVars, appVars>>

\* reset()
HookReset ==
    /\ pc = "hook"
    /\ state' = EmptyState
    /\ UNCHANGED <<pc, doc, processed, again, docVars, fieldVars, loopVars, nameVars, appVars>>

NextHook ==
    \/ \E content \in HookContents : LoadFile(content)
    \/ \E key \in HookKeys, value \in HookValues : UpdateStringVariable(key, value)
    \/ \E key \in HookKeys, value \in HookValues : AddStringVariable(key, value)
    \/ \E entry \in HookEntryPool : HookAddEntry(entry)
    \/ \E key \in HookEntryKeys, updates \in HookUpdates : HookUpdateEntry(key, updates)
    \/ \E key \in HookEntryKeys : HookDeleteEntry(key)
    \/ \E key \in HookKeys : DeleteStringVariable(key)
    \/ HookReset

SpecHook == InitHook /\ [][NextHook]_vars

\* ------------------------------------------------------------------------
\* The author name normalizer on its own: a name is put together from
\* pieces and given to normalizeAuthorName.
\* ------------------------------------------------------------------------

\* How many pieces a name is put together from
MaxNameParts == 4

NamePieces ==
    {<<"J","o","h","n">>, <<"S","m","i","t","h">>, <<" ">>, <<",">>,
     <<"{","A","c","m","e"," ","C","o","r","p","}">>, <<"J","r">>}

InitNames ==
    /\ AppIdle
    /\ pc = "name"
    /\ nameParts = <<>>
    /\ authorName = <<>>
    /\ normalized = <<>>
    /\ state = EmptyState
    /\ cursor = 0
    /\ pending = NoPending
    /\ doc = EmptyDoc
    /\ processed = <<>>
    /\ again = <<>>
    /\ parts = <<>>
    /\ text = <<>>
    /\ blocks = <<>>
    /\ output = <<>>
    /\ doc2 = EmptyDoc
    /\ processed2 = <<>>
    /\ items = <<>>
    /\ fieldsText = <<>>
    /\ fields = <<>>

AppendNamePart(piece) ==
    /\ pc = "name"
    /\ Len(nameParts) < MaxNameParts
    /\ nameParts' = Append(nameParts, piece)
    /\ authorName' = authorName \o piece
    /\ UNCHANGED <<pc, normalized, doc, processed, again, docVars, fieldVars, hookVars, loopVars, appVars>>

NormalizeName ==
    /\ pc = "name"
    /\ normalized' = NormalizeAuthorName(authorName)
    /\ pc' = "normalized"
    /\ UNCHANGED <<nameParts, authorName, doc, processed, again, docVars, fieldVars, hookVars, loopVars, appVars>>

\* The name that came out is given to normalizeAuthorName again, as happens
\* to an author that was written out and read back
NormalizeAgain ==
    /\ pc = "normalized"
    /\ renormalized' = NormalizeAuthorName(normalized)
    /\ pc' = "renormalized"
    /\ UNCHANGED <<engineVars, citeVars, timerVars, fetchVars>>

NextNames ==
    \/ \E piece \in NamePieces : AppendNamePart(piece)
    \/ NormalizeName
    \/ NormalizeAgain

SpecNames == InitNames /\ [][NextNames]_vars

\* ------------------------------------------------------------------------
\* processEntries step by step: the caller links entries by crossref, also to
\* themselves and in cycles, and the crossref loop handles one field of one
\* target at a time.
\* ------------------------------------------------------------------------

\* How many entries a linked list holds
MaxLinked == 2

LinkKeys == {<<"k","1">>, <<"k","2">>}

\* Entries that name any of the keys, their own included, or none
LinkPool ==
    {MakeEntry(k, c, p) : k \in LinkKeys, c \in LinkKeys \cup {Absent},
                          p \in {Absent, <<"A","C","M","E">>}}

InitLoop ==
    /\ AppIdle
    /\ pc = "link"
    /\ doc = EmptyDoc
    /\ processed = <<>>
    /\ cursor = 0
    /\ pending = NoPending
    /\ again = <<>>
    /\ parts = <<>>
    /\ text = <<>>
    /\ blocks = <<>>
    /\ output = <<>>
    /\ doc2 = EmptyDoc
    /\ processed2 = <<>>
    /\ items = <<>>
    /\ fieldsText = <<>>
    /\ fields = <<>>
    /\ state = EmptyState
    /\ nameParts = <<>>
    /\ authorName = <<>>
    /\ normalized = <<>>

AddLinked(e) ==
    /\ pc = "link"
    /\ Len(doc.entries) < MaxLinked
    /\ doc' = [doc EXCEPT !.entries = Append(@, e)]
    /\ UNCHANGED <<pc, processed, again, docVars, fieldVars, hookVars, loopVars, nameVars, appVars>>

\* Where the call stands: the loop it is in, the entry and the fields to go
loopPos == <<pc, cursor, pending>>

\* The call comes to the crossref loop, at its first entry
StartLoop ==
    /\ pc = "link"
    /\ pc' = "crossref"
    /\ cursor' = 1
    /\ pending' = NoPending

\* The copy is made and the first loop runs: every entry gets its
\* processedFields and its authors
StartProcess ==
    /\ StartLoop
    /\ processed' = [i \in 1..Len(doc.entries) |-> ResolveEntry(doc.entries[i], doc.strings)]
    /\ UNCHANGED <<doc, again, docVars, fieldVars, hookVars, nameVars, appVars>>

\* The crossref loop comes to the entry at cursor and finds its target: the
\* for-in loop is to go through the fields the target has now
EnterEntry ==
    /\ pc = "crossref"
    /\ cursor <= Len(processed)
    /\ pending' = IF TargetOf(processed, cursor) = 0 THEN NoPending
                  ELSE processed[TargetOf(processed, cursor)].fields
    /\ pc' = "forIn"
    /\ UNCHANGED <<doc, processed, cursor, again, docVars, fieldVars, hookVars, nameVars, appVars>>

\* The for-in loop takes the next field of the target
NextField ==
    /\ pc = "forIn"
    /\ pending # NoPending
    /\ pending' = Tail(pending)
    /\ UNCHANGED <<pc, cursor, appVars>>

\* One round of the for-in loop
InheritField ==
    /\ NextField
    /\ processed' = [processed EXCEPT
                        ![cursor] = InheritFields(@, <<Head(pending)>>,
                                                  AllStrings(doc.strings))]
    /\ UNCHANGED <<doc, again, docVars, fieldVars, hookVars, nameVars, appVars>>

\* The crossref loop goes on to the entry that stands after the one it handled
FollowCrossref(entries, i) ==
    IF TargetOf(entries, i) # 0 THEN TargetOf(entries, i) ELSE i + 1

NextEntry(entries, i) == i + 1

LeaveEntry ==
    /\ pc = "forIn"
    /\ pending = NoPending
    /\ cursor' = NextEntry(processed, cursor)
    /\ pc' = "crossref"
    /\ UNCHANGED <<doc, processed, pending, again, docVars, fieldVars, hookVars, nameVars, appVars>>

\* return processed
FinishProcess ==
    /\ pc = "crossref"
    /\ cursor > Len(processed)
    /\ pc' = "returned"
    /\ UNCHANGED <<doc, processed, again, docVars, fieldVars, hookVars, loopVars, nameVars, appVars>>

NextLoop ==
    \/ \E e \in LinkPool : AddLinked(e)
    \/ StartProcess
    \/ EnterEntry
    \/ InheritField
    \/ LeaveEntry
    \/ FinishProcess

SpecLoop == InitLoop /\ [][NextLoop]_vars

\* A call that was made goes on: the engine takes the next step of whichever
\* loop the call is in.  StartLoop and NextField are the moves of StartProcess
\* and InheritField, the only steps that move the call that way.
SpecLoopFair ==
    /\ SpecLoop
    /\ WF_loopPos(StartLoop)
    /\ WF_vars(EnterEntry)
    /\ WF_loopPos(NextField)
    /\ WF_vars(LeaveEntry)
    /\ WF_vars(FinishProcess)

\* ------------------------------------------------------------------------
\* SemanticScholarApi.fetchWithRetry step by step: each attempt's fetch comes
\* to a response or to an error, and the call sleeps between attempts.
\* ------------------------------------------------------------------------

TIMEOUT_MS == 15000

MAX_RETRIES == 2

RETRY_DELAY == 1000

\* What an attempt comes to: a response with its status, or an error with its
\* name and message
Response(status) == [kind |-> "response", status |-> status, name |-> <<>>, message |-> <<>>]

ErrorOf(name, message) == [kind |-> "error", status |-> 0, name |-> name, message |-> message]

NameError == <<"E","r","r","o","r">>

NameTypeError == <<"T","y","p","e","E","r","r","o","r">>

\* The error fetchWithTimeout throws when it aborted the request
TimedOut == ErrorOf(NameError, <<"R","e","q","u","e","s","t"," ","t","i","m","e","d"," ","o","u","t"," ","a","f","t","e","r"," ","1","5"," ","s","e","c","o","n","d","s","."," ","T","h","e"," ","s","e","r","v","e","r"," ","m","a","y"," ","b","e"," ","e","x","p","e","r","i","e","n","c","i","n","g"," ","h","i","g","h"," ","l","o","a","d",".">>)

\* What fetch rejects with when the request could not be made, in Chromium
\* and in Firefox, and an error of another kind
FailedToFetch == ErrorOf(NameTypeError, <<"F","a","i","l","e","d"," ","t","o"," ","f","e","t","c","h">>)

NetworkErrorFirefox == ErrorOf(NameTypeError, <<"N","e","t","w","o","r","k","E","r","r","o","r"," ","w","h","e","n"," ","a","t","t","e","m","p","t","i","n","g"," ","t","o"," ","f","e","t","c","h"," ","r","e","s","o","u","r","c","e",".">>)

OtherError == ErrorOf(NameError, <<"U","n","e","x","p","e","c","t","e","d"," ","t","o","k","e","n"," ","<"," ","i","n"," ","J","S","O","N">>)

\* new CORSError()
CORSError == ErrorOf(<<"C","O","R","S","E","r","r","o","r">>, <<>>)

FetchStatuses == {200, 404, 429, 500, 503}

FetchErrors == {TimedOut, FailedToFetch, NetworkErrorFirefox, OtherError}

\* isCORSError(error)
IsCORSError(error) ==
    \/ /\ error.name = NameTypeError
       /\ \/ IsSubstring(<<"C","O","R","S">>, error.message)
          \/ IsSubstring(<<"c","r","o","s","s","-","o","r","i","g","i","n">>, error.message)
          \/ IsSubstring(<<"A","c","c","e","s","s","-","C","o","n","t","r","o","l","-","A","l","l","o","w","-","O","r","i","g","i","n">>, error.message)
          \/ IsSubstring(<<"F","a","i","l","e","d"," ","t","o"," ","f","e","t","c","h">>, error.message)
          \/ IsSubstring(<<"n","e","t","w","o","r","k"," ","e","r","r","o","r">>, ToLowerCase(error.message))
    \/ IsSubstring(<<"N","e","t","w","o","r","k","E","r","r","o","r">>, error.message)
    \/ IsSubstring(<<"C","O","R","S"," ","r","e","q","u","e","s","t"," ","d","i","d"," ","n","o","t"," ","s","u","c","c","e","e","d">>, error.message)

\* response.status >= 500 || response.status === 429
IsServerError(status) == status >= 500 \/ status = 429

\* The errors that are tried again: a timeout or a network error
IsRetriedError(error) ==
    \/ IsSubstring(<<"t","i","m","e","d"," ","o","u","t">>, error.message)
    \/ IsSubstring(<<"N","e","t","w","o","r","k","E","r","r","o","r">>, error.message)
    \/ IsSubstring(<<"F","a","i","l","e","d"," ","t","o"," ","f","e","t","c","h">>, error.message)

\* The delay before the next attempt
FlatDelay(n) == RETRY_DELAY

RetryDelayOf(n) == RETRY_DELAY * (n + 1)

InitFetch ==
    /\ pc = "fetch"
    /\ EngineIdle
    /\ AppIdle

\* await fetchWithTimeout gives a response
FetchResponds(status) ==
    /\ pc = "fetch"
    /\ attempt <= MAX_RETRIES
    /\ fetched' = Append(fetched, Response(status))
    /\ IF IsServerError(status) /\ attempt # MAX_RETRIES
       THEN /\ waited' = Append(waited, RetryDelayOf(attempt))
            /\ pc' = "sleep"
            /\ UNCHANGED settled
       ELSE /\ settled' = <<Response(status)>>
            /\ pc' = "returned"
            /\ UNCHANGED waited
    /\ UNCHANGED <<engineVars, renormalized, citeVars, timerVars, attempt>>

\* await fetchWithTimeout throws
FetchFails(error) ==
    /\ pc = "fetch"
    /\ attempt <= MAX_RETRIES
    /\ fetched' = Append(fetched, error)
    /\ IF IsCORSError(error)
       THEN /\ settled' = <<CORSError>>
            /\ pc' = "thrown"
            /\ UNCHANGED waited
       ELSE IF attempt = MAX_RETRIES \/ ~IsRetriedError(error)
       THEN /\ settled' = <<error>>
            /\ pc' = "thrown"
            /\ UNCHANGED waited
       ELSE /\ waited' = Append(waited, RetryDelayOf(attempt))
            /\ pc' = "sleep"
            /\ UNCHANGED settled
    /\ UNCHANGED <<engineVars, renormalized, citeVars, timerVars, attempt>>

\* The sleep is over: continue, attempt++
SleepEnds ==
    /\ pc = "sleep"
    /\ attempt' = attempt + 1
    /\ pc' = "fetch"
    /\ UNCHANGED <<engineVars, renormalized, citeVars, timerVars, fetched, waited, settled>>

NextFetch ==
    \/ \E status \in FetchStatuses : FetchResponds(status)
    \/ \E error \in FetchErrors : FetchFails(error)
    \/ SleepEnds

SpecFetch == InitFetch /\ [][NextFetch]_vars

\* fetchWithTimeout settles, with the response, with fetch's error or with
\* the abort after TIMEOUT_MS, and the timer of a sleep fires
SpecFetchFair ==
    /\ SpecFetch
    /\ WF_vars(\E status \in FetchStatuses : FetchResponds(status))
    /\ WF_vars(\E error \in FetchErrors : FetchFails(error))
    /\ WF_vars(SleepEnds)

\* ------------------------------------------------------------------------
\* CitationProvider: citationReducer and the action handlers that dispatch
\* to it.  An entry is an object: its identity, ref, and its properties; a
\* Cite instance is its identity, inst, and its data.  Objects are numbered
\* as they are created.
\* ------------------------------------------------------------------------

PropId == <<"i","d">>

PropTitle == <<"t","i","t","l","e">>

PropYear == <<"y","e","a","r">>

PropIssued == <<"i","s","s","u","e","d">>

PropCitationKey == <<"c","i","t","a","t","i","o","n","-","k","e","y">>

\* entry.id, undefined when the entry has none
IdOf(entry) == IF MapHas(entry.props, PropId) THEN MapGet(entry.props, PropId) ELSE Undefined

\* A property that is set and is not the empty string
TruthyProp(props, name) == MapHas(props, name) /\ MapGet(props, name) # <<>>

\* `${counter}`
RECURSIVE NatToString(_)
NatToString(n) ==
    LET digit == CHOOSE d \in Digits : d = ToString(n % 10)
    IN  IF n < 10 THEN <<digit>> ELSE Append(NatToString(n \div 10), digit)

\* The digits a string starts with
RECURSIVE LeadingDigits(_)
LeadingDigits(str) ==
    IF str = <<>> \/ str[1] \notin Digits THEN <<>>
    ELSE <<str[1]>> \o LeadingDigits(Tail(str))

\* A digit string as the number it reads prints: no leading zeros
RECURSIVE NumberText(_)
NumberText(digits) ==
    IF Len(digits) > 1 /\ digits[1] = "0" THEN NumberText(Tail(digits)) ELSE digits

\* parseInt of a value without leading white space: the digits it starts
\* with, after a sign, as the number reads; NaN when there are none
ParseIntTrimmed(trimmed) ==
    LET signed == trimmed # <<>> /\ trimmed[1] \in {"-", "+"}
        digits == LeadingDigits(IF signed THEN Tail(trimmed) ELSE trimmed)
    IN  IF digits = <<>> THEN <<"N","a","N">>
        ELSE IF trimmed[1] = "-" /\ NumberText(digits) # <<"0">>
             THEN <<"-">> \o NumberText(digits)
        ELSE NumberText(digits)

\* parseInt(value): leading white space is skipped
ParseInt(value) == ParseIntTrimmed(Trim(value))

\* { 'date-parts': [[n]] }, written as its text
DateParts(n) == <<"{","\"","d","a","t","e","-","p","a","r","t","s","\"",":","[","[">> \o n \o <<"]","]","}">>

\* updateEntry of cslUtils: the forEach over the keys of updates
RECURSIVE ApplyUpdates(_, _)
ApplyUpdates(props, updates) ==
    IF updates = <<>> THEN props
    ELSE LET key   == updates[1].key
             value == updates[1].value
             next  == IF key = PropYear /\ value # <<>>
                      THEN MapSet(props, PropIssued, DateParts(ParseInt(value)))
                      ELSE IF key = PropIssued THEN MapSet(props, PropIssued, value)
                      ELSE IF key = PropId
                      THEN MapSet(MapSet(props, PropId, value), PropCitationKey, value)
                      ELSE MapSet(props, key, value)
         IN  ApplyUpdates(next, Tail(updates))

\* updateEntry of cslUtils: updated is a new object, ref
UpdateCslEntry(entry, updates, ref) == [ref |-> ref, props |-> ApplyUpdates(entry.props, updates)]

\* citationDataChanged: the loop returns true at the first pair of entries
\* that are not the same object
CitationDataChanged(oldData, newData) ==
    IF Len(oldData) # Len(newData) THEN TRUE
    ELSE \E i \in 1..Len(oldData) : oldData[i].ref # newData[i].ref

\* createOrUpdateCite with h objects created so far: the instance and the
\* number of objects after it.  new Cite(newData) holds newData.
CreateOrUpdateCite(currentCite, newData, oldData, h) ==
    IF ~CitationDataChanged(oldData, newData)
    THEN [cite |-> currentCite, heap |-> h]
    ELSE [cite |-> [inst |-> h + 1, data |-> newData], heap |-> h + 1]

AlnumChars == UpperSet \cup LowerSet \cup Digits

\* The while loop of generateUniqueIdInReducer
RECURSIVE FreeCounter(_, _, _)
FreeCounter(existingIds, cleanBase, counter) ==
    IF \E i \in 1..Len(existingIds) : existingIds[i] = cleanBase \o NatToString(counter)
    THEN FreeCounter(existingIds, cleanBase, counter + 1)
    ELSE counter

GenerateUniqueIdInReducer(existingData, base) ==
    LET existingIds == [i \in 1..Len(existingData) |-> IdOf(existingData[i])]
        cleanBase   == ToLowerCase(KeepPositions(base,
                           [i \in 1..Len(base) |-> base[i] \in AlnumChars]))
    IN  IF ~\E i \in 1..Len(existingIds) : existingIds[i] = cleanBase
        THEN cleanBase
        ELSE cleanBase \o NatToString(FreeCounter(existingIds, cleanBase, 1))

\* entry.title || 'entry'
TitleOrEntry(entry) ==
    IF TruthyProp(entry.props, PropTitle) THEN MapGet(entry.props, PropTitle)
    ELSE <<"e","n","t","r","y">>

\* What a case of the reducer that may create a Cite instance gives: the next
\* state and the number of objects
WithCite(s, made) ==
    [state |-> [s EXCEPT !.cite = made.cite,
                         !.citeVersion = @ + (IF made.cite.inst # s.cite.inst THEN 1 ELSE 0),
                         !.form = [@ EXCEPT !.isDirty = TRUE]],
     heap  |-> made.heap]

\* case 'LOAD_CITATION'.  loadFromBibTeX gives no variables.
LoadCitation(s, newCite, filename) ==
    [s EXCEPT !.cite = newCite,
              !.citeVersion = @ + (IF newCite.inst # s.cite.inst THEN 1 ELSE 0),
              !.variables = <<>>,
              !.filename = filename,
              !.isLoaded = TRUE,
              !.selection = [type |-> "entry", items |-> <<>>],
              !.form = InitialForm]

\* case 'RESET_CITATION'
ResetCase(s) == [InitialState EXCEPT !.citeVersion = s.citeVersion + 1]

\* case 'ADD_ENTRY'
AddEntryCase(s, payload, h) ==
    LET entry   == IF TruthyProp(payload.props, PropId) THEN payload
                   ELSE [payload EXCEPT !.props =
                            MapSet(@, PropId,
                                   GenerateUniqueIdInReducer(s.cite.data, TitleOrEntry(payload)))]
        newData == Append(s.cite.data, entry)
    IN  WithCite(s, CreateOrUpdateCite(s.cite, newData, s.cite.data, h))

\* data.findIndex(entry => entry.id === id), counted from 1; 0 is -1
FindIndexById(data, id) ==
    LET hits == {i \in 1..Len(data) : IdOf(data[i]) = id}
    IN  IF hits = {} THEN 0 ELSE CHOOSE i \in hits : \A j \in hits : i <= j

\* case 'UPDATE_ENTRY'
UpdateEntryCase(s, id, updates, h) ==
    LET entryIndex   == FindIndexById(s.cite.data, id)
        oldEntry     == s.cite.data[entryIndex]
        updatedEntry == UpdateCslEntry(oldEntry, updates, h + 1)
        data         == [s.cite.data EXCEPT ![entryIndex] = updatedEntry]
    IN  IF entryIndex = 0 THEN [state |-> s, heap |-> h]
        ELSE IF oldEntry.ref = updatedEntry.ref THEN [state |-> s, heap |-> h + 1]
        ELSE WithCite(s, CreateOrUpdateCite(s.cite, data, s.cite.data, h + 1))

\* case 'DELETE_ENTRY' and case 'DELETE_ENTRIES': the entries whose id is
\* among ids go
DeleteEntriesCase(s, ids, h) ==
    LET data == SelectSeq(s.cite.data, LAMBDA e : IdOf(e) \notin ids)
    IN  IF Len(data) = Len(s.cite.data) THEN [state |-> s, heap |-> h]
        ELSE WithCite(s, CreateOrUpdateCite(s.cite, data, s.cite.data, h))

\* case 'DUPLICATE_ENTRY'
DuplicateEntryCase(s, sourceId, h) ==
    LET index   == FindIndexById(s.cite.data, sourceId)
        entry   == s.cite.data[index]
        newId   == GenerateUniqueIdInReducer(s.cite.data, IdOf(entry) \o <<"_","c","o","p","y">>)
        duplicatedEntry == [ref |-> h + 1, props |-> MapSet(entry.props, PropId, newId)]
        newData == Append(s.cite.data, duplicatedEntry)
    IN  IF index = 0 THEN [state |-> s, heap |-> h]
        ELSE WithCite(s, CreateOrUpdateCite(s.cite, newData, s.cite.data, h + 1))

\* case 'ADD_VARIABLE' and case 'UPDATE_VARIABLE'
SetVariableCase(s, key, value) ==
    [s EXCEPT !.variables = MapSet(@, key, value), !.form = [@ EXCEPT !.isDirty = TRUE]]

\* case 'DELETE_VARIABLE'
DeleteVariableCase(s, key) ==
    [s EXCEPT !.variables = MapDelete(@, key), !.form = [@ EXCEPT !.isDirty = TRUE]]

\* case 'SET_SELECTION'
SetSelectionCase(s, selection) == [s EXCEPT !.selection = selection]

\* [...new Set([...a, ...b])]
RECURSIVE Distinct(_)
Distinct(list) ==
    IF list = <<>> THEN <<>>
    ELSE LET front == Distinct(SubSeq(list, 1, Len(list) - 1))
             last  == list[Len(list)]
         IN  IF \E i \in 1..Len(front) : front[i] = last THEN front ELSE Append(front, last)

\* case 'ADD_TO_SELECTION'
AddToSelectionCase(s, payload) ==
    IF payload.type # s.selection.type THEN [s EXCEPT !.selection = payload]
    ELSE [s EXCEPT !.selection.items = Distinct(@ \o payload.items)]

\* case 'REMOVE_FROM_SELECTION'
RemoveFromSelectionCase(s, payload) ==
    IF payload.type # s.selection.type THEN s
    ELSE [s EXCEPT !.selection.items =
             SelectSeq(@, LAMBDA item : ~\E i \in 1..Len(payload.items) : payload.items[i] = item)]

\* case 'CLEAR_SELECTION'
ClearSelectionCase(s) == [s EXCEPT !.selection.items = <<>>]

\* case 'SET_FILTERS'
SetFiltersCase(s, payload) == [s EXCEPT !.filters = SpreadRecord(@, payload)]

\* case 'RESET_FILTERS'
ResetFiltersCase(s) == [s EXCEPT !.filters = InitialFilters]

\* case 'SET_VIEW'
SetViewCase(s, payload) == [s EXCEPT !.view = SpreadRecord(@, payload)]

\* case 'START_EDITING_ENTRY'
StartEditingEntryCase(s, id) ==
    [s EXCEPT !.form = [@ EXCEPT !.editingEntry = id, !.editingVariable = Undefined]]

\* case 'START_EDITING_VARIABLE'
StartEditingVariableOnly(s, key) ==
    [s EXCEPT !.form = [@ EXCEPT !.editingVariable = key]]

StartEditingVariableCase(s, key) ==
    [s EXCEPT !.form = [@ EXCEPT !.editingVariable = key, !.editingEntry = Undefined]]

\* case 'STOP_EDITING'
StopEditingCase(s) ==
    [s EXCEPT !.form = [@ EXCEPT !.editingEntry = Undefined, !.editingVariable = Undefined]]

\* How many objects are created, and how far citeVersion is taken
MaxObjects == 5

MaxVersion == 3

\* How many updateEntry calls are made
MaxCalls == 3

\* The delay of updateEntry's timers, and the step of the clock
DebounceMs == 100

TickMs == 50

MaxClock == 200

\* The titles the user gives a new entry: one, and none
CiteTitles == {<<"A">>, <<>>}

\* The updates the user makes to an entry
CiteUpdates ==
    {<<[key |-> PropTitle, value |-> <<"A">>]>>, <<[key |-> PropTitle, value |-> <<"B">>]>>}

\* The ids the user names: those of the entries, and one that no entry has
MissingId == <<"x">>

NamedIds == {IdOf(ui.cite.data[i]) : i \in 1..Len(ui.cite.data)} \cup {MissingId}

VariableKey == <<"v">>

VariableValue == <<"x">>

InitCite ==
    /\ pc = "mounted"
    /\ EngineIdle
    /\ AppIdle

\* useEffect(() => { stateRef.current = state }, [state])
RefreshStateRef ==
    /\ pc = "mounted"
    /\ stateRef # StateRefOf(ui)
    /\ stateRef' = StateRefOf(ui)
    /\ UNCHANGED <<pc, engineVars, renormalized, ui, heap, result, timerVars, fetchVars>>

\* loadFromBibTeX: new Cite(content) for a file with one entry, k1
LoadFromBibTeX ==
    /\ pc = "mounted"
    /\ heap + 2 <= MaxObjects
    /\ LET entry   == [ref |-> heap + 2,
                       props |-> <<[key |-> PropId, value |-> <<"k","1">>],
                                   [key |-> PropTitle, value |-> <<"A">>]>>]
           newCite == [inst |-> heap + 1, data |-> <<entry>>]
       IN  ui' = LoadCitation(ui, newCite, Undefined)
    /\ heap' = heap + 2
    /\ result' = NoResult
    /\ UNCHANGED <<pc, engineVars, renormalized, timerVars, fetchVars, stateRef>>

\* resetCitation
ResetCitation ==
    /\ pc = "mounted"
    /\ ui.citeVersion < MaxVersion
    /\ ui' = ResetCase(ui)
    /\ result' = NoResult
    /\ UNCHANGED <<pc, engineVars, renormalized, timerVars, fetchVars, stateRef, heap>>

\* addEntry(entry) for an entry with a title and no id
CiteAddEntry(title) ==
    /\ pc = "mounted"
    /\ heap + 2 <= MaxObjects
    /\ LET entry       == [ref |-> heap + 1, props |-> <<[key |-> PropTitle, value |-> title]>>]
           id          == GenerateUniqueIdInReducer(stateRef.data, TitleOrEntry(entry))
           entryWithId == IF TruthyProp(entry.props, PropId) THEN entry
                          ELSE [entry EXCEPT !.props = MapSet(@, PropId, id)]
           next        == AddEntryCase(ui, entryWithId, heap + 1)
       IN  /\ ui' = next.state
           /\ heap' = next.heap
           /\ result' = [op |-> "addEntry", id |-> Undefined, value |-> IdOf(entryWithId)]
    /\ UNCHANGED <<pc, engineVars, renormalized, timerVars, fetchVars, stateRef>>

\* deleteEntry(id)
CiteDeleteEntry(id) ==
    /\ pc = "mounted"
    /\ heap + 1 <= MaxObjects
    /\ LET next == DeleteEntriesCase(ui, {id}, heap)
       IN  ui' = next.state /\ heap' = next.heap
    /\ result' = NoResult
    /\ UNCHANGED <<pc, engineVars, renormalized, timerVars, fetchVars, stateRef>>

\* deleteEntries(ids)
DeleteEntries(ids) ==
    /\ pc = "mounted"
    /\ heap + 1 <= MaxObjects
    /\ LET next == DeleteEntriesCase(ui, ids, heap)
       IN  ui' = next.state /\ heap' = next.heap
    /\ result' = NoResult
    /\ UNCHANGED <<pc, engineVars, renormalized, timerVars, fetchVars, stateRef>>

\* duplicateEntry(id)
DuplicateEntry(id) ==
    /\ pc = "mounted"
    /\ heap + 2 <= MaxObjects
    /\ LET next == DuplicateEntryCase(ui, id, heap)
       IN  ui' = next.state /\ heap' = next.heap
    /\ result' = [op |-> "duplicateEntry", id |-> id, value |-> id \o <<"_","c","o","p","y">>]
    /\ UNCHANGED <<pc, engineVars, renormalized, timerVars, fetchVars, stateRef>>

\* addVariable(key, value)
AddVariable(key, value) ==
    /\ pc = "mounted"
    /\ ui' = SetVariableCase(ui, key, value)
    /\ result' = NoResult
    /\ UNCHANGED <<pc, engineVars, renormalized, timerVars, fetchVars, stateRef, heap>>

\* updateVariable(key, value)
UpdateVariable(key, value) ==
    /\ pc = "mounted"
    /\ ui' = SetVariableCase(ui, key, value)
    /\ result' = NoResult
    /\ UNCHANGED <<pc, engineVars, renormalized, timerVars, fetchVars, stateRef, heap>>

\* deleteVariable(key)
DeleteVariable(key) ==
    /\ pc = "mounted"
    /\ ui' = DeleteVariableCase(ui, key)
    /\ result' = NoResult
    /\ UNCHANGED <<pc, engineVars, renormalized, timerVars, fetchVars, stateRef, heap>>

\* setSelection(selection)
SetSelection(selection) ==
    /\ pc = "mounted"
    /\ ui' = SetSelectionCase(ui, selection)
    /\ result' = NoResult
    /\ UNCHANGED <<pc, engineVars, renormalized, timerVars, fetchVars, stateRef, heap>>

\* addToSelection(type, items)
AddToSelection(type, selected) ==
    /\ pc = "mounted"
    /\ ui' = AddToSelectionCase(ui, [type |-> type, items |-> selected])
    /\ result' = NoResult
    /\ UNCHANGED <<pc, engineVars, renormalized, timerVars, fetchVars, stateRef, heap>>

\* removeFromSelection(type, items)
RemoveFromSelection(type, selected) ==
    /\ pc = "mounted"
    /\ ui' = RemoveFromSelectionCase(ui, [type |-> type, items |-> selected])
    /\ result' = NoResult
    /\ UNCHANGED <<pc, engineVars, renormalized, timerVars, fetchVars, stateRef, heap>>

\* clearSelection
ClearSelection ==
    /\ pc = "mounted"
    /\ ui' = ClearSelectionCase(ui)
    /\ result' = NoResult
    /\ UNCHANGED <<pc, engineVars, renormalized, timerVars, fetchVars, stateRef, heap>>

\* hasChanges of setFilters, against the filters stateRef.current holds
HasChanges(filters, currentFilters) ==
    \E k \in DOMAIN filters :
        IF k = "yearRange"
        THEN \/ filters[k].from # currentFilters[k].from
             \/ filters[k].to # currentFilters[k].to
        ELSE filters[k] # currentFilters[k]

\* setFilters(filters)
SetFilters(filters) ==
    /\ pc = "mounted"
    /\ ui' = IF HasChanges(filters, stateRef.filters) THEN SetFiltersCase(ui, filters) ELSE ui
    /\ result' = NoResult
    /\ UNCHANGED <<pc, engineVars, renormalized, timerVars, fetchVars, stateRef, heap>>

\* resetFilters
ResetFilters ==
    /\ pc = "mounted"
    /\ ui' = ResetFiltersCase(ui)
    /\ result' = NoResult
    /\ UNCHANGED <<pc, engineVars, renormalized, timerVars, fetchVars, stateRef, heap>>

\* setView(view)
SetView(view) ==
    /\ pc = "mounted"
    /\ ui' = SetViewCase(ui, view)
    /\ result' = NoResult
    /\ UNCHANGED <<pc, engineVars, renormalized, timerVars, fetchVars, stateRef, heap>>

\* setCurrentTab(tab)
SetCurrentTab(tab) ==
    /\ pc = "mounted"
    /\ ui' = SetViewCase(ui, [currentTab |-> tab])
    /\ result' = NoResult
    /\ UNCHANGED <<pc, engineVars, renormalized, timerVars, fetchVars, stateRef, heap>>

\* setSortBy(sortBy, direction = 'asc')
SetSortBy(sortBy, direction) ==
    /\ pc = "mounted"
    /\ ui' = SetViewCase(ui, [sortBy |-> sortBy, sortDirection |-> direction])
    /\ result' = NoResult
    /\ UNCHANGED <<pc, engineVars, renormalized, timerVars, fetchVars, stateRef, heap>>

\* setDisplayMode(mode)
SetDisplayMode(mode) ==
    /\ pc = "mounted"
    /\ ui' = SetViewCase(ui, [displayMode |-> mode])
    /\ result' = NoResult
    /\ UNCHANGED <<pc, engineVars, renormalized, timerVars, fetchVars, stateRef, heap>>

\* startEditingEntry(id)
StartEditingEntry(id) ==
    /\ pc = "mounted"
    /\ ui' = StartEditingEntryCase(ui, id)
    /\ result' = NoResult
    /\ UNCHANGED <<pc, engineVars, renormalized, timerVars, fetchVars, stateRef, heap>>

\* startEditingVariable(key)
StartEditingVariable(key) ==
    /\ pc = "mounted"
    /\ ui' = StartEditingVariableCase(ui, key)
    /\ result' = NoResult
    /\ UNCHANGED <<pc, engineVars, renormalized, timerVars, fetchVars, stateRef, heap>>

\* stopEditing
StopEditing ==
    /\ pc = "mounted"
    /\ ui' = StopEditingCase(ui)
    /\ result' = NoResult
    /\ UNCHANGED <<pc, engineVars, renormalized, timerVars, fetchVars, stateRef, heap>>

\* JSON.stringify of a string: quotes and backslashes are escaped
JsonString(str) ==
    <<"\"">> \o Join(SplitOn(Join(SplitOn(str, "\\"), <<"\\", "\\">>), "\""), <<"\\", "\"">>)
        \o <<"\"">>

\* JSON.stringify(updates) for updates whose values are strings
JsonStringify(updates) ==
    <<"{">> \o Join([i \in 1..Len(updates) |->
                        JsonString(updates[i].key) \o <<":">> \o JsonString(updates[i].value)],
                    <<",">>)
        \o <<"}">>

\* `${id}-${JSON.stringify(updates)}`
CallIdOf(id, updates) == id \o <<"-">> \o JsonStringify(updates)

\* updateEntryTimeoutRef.current[callId] as a condition
NeverPending(timeouts, callId) == FALSE

IsPending(timeouts, callId) == MapHas(timeouts, callId)

\* updateEntry(id, updates): a call whose timer is pending returns at once;
\* any other call sets the timer and dispatches
CiteUpdateEntry(id, updates) ==
    /\ pc = "mounted"
    /\ Len(calls) < MaxCalls
    /\ LET callId == CallIdOf(id, updates)
           next   == UpdateEntryCase(ui, id, updates, heap)
       IN  IF IsPending(timers, callId)
           THEN /\ calls' = Append(calls, [id |-> id, updates |-> updates, at |-> clock,
                                           dispatched |-> FALSE])
                /\ UNCHANGED <<ui, heap, timers>>
           ELSE /\ timers' = MapSet(timers, callId, clock + DebounceMs)
                /\ ui' = next.state
                /\ heap' = next.heap
                /\ calls' = Append(calls, [id |-> id, updates |-> updates, at |-> clock,
                                           dispatched |-> TRUE])
    /\ result' = NoResult
    /\ UNCHANGED <<pc, engineVars, renormalized, stateRef, clock, fetchVars>>

\* The callback of a timer that is due: delete updateEntryTimeoutRef.current[callId]
TimerFires(callId) ==
    /\ pc = "mounted"
    /\ MapHas(timers, callId)
    /\ MapGet(timers, callId) <= clock
    /\ timers' = MapDelete(timers, callId)
    /\ UNCHANGED <<pc, engineVars, renormalized, citeVars, clock, calls, fetchVars>>

\* Time passes
Tick ==
    /\ pc = "mounted"
    /\ clock < MaxClock
    /\ clock' = clock + TickMs
    /\ UNCHANGED <<pc, engineVars, renormalized, citeVars, timers, calls, fetchVars>>

\* The updates made to an entry while time passes: a title, another title,
\* and a title with a year
DebounceUpdates ==
    CiteUpdates \cup {<<[key |-> PropTitle, value |-> <<"A">>],
                        [key |-> PropYear, value |-> <<"2","0","2","0">>]>>}

\* The provider with an entry loaded once, before the calls, its updateEntry,
\* and time
NextDebounce ==
    \/ calls = <<>> /\ ~ui.isLoaded /\ LoadFromBibTeX
    \/ \E id \in NamedIds \ {MissingId}, updates \in DebounceUpdates :
           CiteUpdateEntry(id, updates)
    \/ \E i \in 1..Len(timers) : TimerFires(timers[i].key)
    \/ Tick

SpecDebounce == InitCite /\ [][NextDebounce]_vars

\* The provider's actions on the citation and its entries; no time passes
NextCite ==
    \/ RefreshStateRef
    \/ LoadFromBibTeX
    \/ ResetCitation
    \/ \E title \in CiteTitles : CiteAddEntry(title)
    \/ \E id \in NamedIds, updates \in CiteUpdates : CiteUpdateEntry(id, updates)
    \/ \E id \in NamedIds : CiteDeleteEntry(id)
    \/ DeleteEntries(NamedIds)
    \/ \E id \in NamedIds : DuplicateEntry(id)

SpecCite == InitCite /\ [][NextCite]_vars

\* How many objects there may be when an action on the citation is taken
\* among the actions on the variables, the selection, the filters, the view
\* and the form
MaxEditingObjects == 3

\* How many updateEntry calls there may be before such an action
MaxEditingCalls == 1

\* The provider with every action it exposes
NextEditing ==
    \/ heap < MaxEditingObjects /\ Len(calls) < MaxEditingCalls /\ NextCite
    \/ AddVariable(VariableKey, VariableValue)
    \/ UpdateVariable(VariableKey, VariableValue)
    \/ DeleteVariable(VariableKey)
    \/ SetSelection([type |-> "variable", items |-> <<VariableKey>>])
    \/ AddToSelection("variable", <<VariableKey>>)
    \/ RemoveFromSelection("variable", <<VariableKey>>)
    \/ ClearSelection
    \/ SetFilters([searchText |-> "x", yearRange |-> [from |-> <<2020>>, to |-> <<>>]])
    \/ ResetFilters
    \/ SetView([currentTab |-> "variables"])
    \/ SetCurrentTab("literature")
    \/ SetSortBy("author", "asc")
    \/ SetDisplayMode("card")
    \/ \E id \in NamedIds : StartEditingEntry(id)
    \/ StartEditingVariable(VariableKey)
    \/ StopEditing

SpecEditing == InitCite /\ [][NextEditing]_vars

\* ------------------------------------------------------------------------
\* Properties
\* ------------------------------------------------------------------------

\* The steps of the document pipeline at which a result is there
Parsed == pc \in {"parsed", "processed", "serialized", "reparsed", "reprocessed"}

Processed == pc \in {"processed", "serialized", "reparsed", "reprocessed"}

Serialized == pc \in {"serialized", "reparsed", "reprocessed"}

\* An ordered map as the set of its [key, value] pairs
Pairs(m) == {m[i] : i \in 1..Len(m)}

KeySet(m) == {m[i].key : i \in 1..Len(m)}

\* Two resolved entry lists give, entry by entry, the same key and the same
\* processedFields
SameResolvedFields(a, b) ==
    /\ Len(a) = Len(b)
    /\ \A i \in 1..Len(a) :
          /\ a[i].key = b[i].key
          /\ Pairs(a[i].processedFields) = Pairs(b[i].processedFields)

\* C1: round trip.  Resolving a parsed document, serializing it, parsing the
\* output and resolving again gives every entry the processedFields that
\* resolving the parsed document gave.
RoundTrip == pc = "reprocessed" => SameResolvedFields(processed, processed2)

\* C2: a document variable named like a month wins over the built-in month.
\* Every field whose raw value is a month abbreviation that the variable table
\* defines resolves to the table's value.
DocumentVariableBeatsMonth ==
    pc = "resolved" =>
        \A i \in 1..Len(processed) : \A j \in 1..Len(processed[i].fields) :
            LET raw == processed[i].fields[j].value
            IN  MapHas(MonthStrings, raw) /\ MapHas(doc.strings, raw) =>
                    MapGet(processed[i].processedFields, processed[i].fields[j].key)
                        = MapGet(doc.strings, raw)

\* C3: crossref inheritance is single-level.  Every field an entry has after
\* processEntries and did not have in the input is a field that the entry its
\* crossref names had in the input.
SingleLevelInheritance ==
    pc = "resolved" =>
        \A i \in 1..Len(doc.entries) :
            \A f \in KeySet(processed[i].fields) \ KeySet(doc.entries[i].fields) :
                /\ TargetOf(doc.entries, i) # 0
                /\ MapHas(doc.entries[TargetOf(doc.entries, i)].fields, f)

\* C4: crossref inheritance is non-destructive.  For an entry whose crossref
\* names an entry of the list, every field it had in the input keeps its raw
\* value and the resolved value the entry gets on its own, and every field the
\* named entry had in the input and the entry lacked is there with the named
\* entry's raw value and resolved value.
CrossrefNonDestructive ==
    pc = "resolved" =>
        \A i \in 1..Len(doc.entries) :
            LET child  == doc.entries[i]
                t      == TargetOf(doc.entries, i)
                own    == ResolveEntry(child, doc.strings)
                target == ResolveEntry(doc.entries[t], doc.strings)
            IN  t # 0 =>
                  /\ \A f \in KeySet(child.fields) :
                        /\ MapHas(processed[i].fields, f)
                        /\ MapGet(processed[i].fields, f) = MapGet(child.fields, f)
                        /\ MapGet(processed[i].processedFields, f)
                              = MapGet(own.processedFields, f)
                  /\ \A f \in KeySet(target.fields) \ KeySet(child.fields) :
                        /\ MapHas(processed[i].fields, f)
                        /\ MapGet(processed[i].fields, f) = MapGet(target.fields, f)
                        /\ MapGet(processed[i].processedFields, f)
                              = MapGet(target.processedFields, f)

\* A resolved list in which one entry kept its own publisher against a
\* different publisher of the entry it names, and another entry took its
\* publisher from the entry it names
CrossrefNonDestructiveWitness ==
    /\ pc = "resolved"
    /\ \E i \in 1..Len(doc.entries) :
          LET t == TargetOf(doc.entries, i)
          IN  /\ t # 0
              /\ MapHas(doc.entries[i].fields, FieldPublisher)
              /\ MapHas(doc.entries[t].fields, FieldPublisher)
              /\ MapGet(doc.entries[i].fields, FieldPublisher)
                    # MapGet(doc.entries[t].fields, FieldPublisher)
              /\ MapGet(processed[i].fields, FieldPublisher)
                    = MapGet(doc.entries[i].fields, FieldPublisher)
    /\ \E i \in 1..Len(doc.entries) :
          LET t == TargetOf(doc.entries, i)
          IN  /\ t # 0
              /\ ~MapHas(doc.entries[i].fields, FieldPublisher)
              /\ MapHas(doc.entries[t].fields, FieldPublisher)
              /\ MapHas(processed[i].fields, FieldPublisher)

\* C5: resolution is idempotent.  Resolving the resolved list again gives
\* every entry the processedFields it had.
ResolutionIdempotent ==
    pc = "resolvedAgain" => SameResolvedFields(processed, again)

\* The text starts with an @-block whose opening delimiter has no balanced
\* close anywhere in the text
StartsUnbalanced(t) ==
    /\ StartsWithChar(t, "@")
    /\ LeadingWord(SubstringFrom(t, 1)) > 0
    /\ ~FindBlock(CleanText(t), 1 + LeadingWord(SubstringFrom(t, 1))).found

\* The fragment is one well-formed entry block and nothing else
IsWellFormedEntry(f) ==
    /\ StartsWithChar(f, "@")
    /\ FindBlock(f, 1 + LeadingWord(SubstringFrom(f, 1))).found
    /\ FindBlock(f, 1 + LeadingWord(SubstringFrom(f, 1))).endIndex = Len(f)
    /\ Len(ParseBibtex(f).entries) = 1

\* C6: a block with no balanced close yields no entry and scanning goes on
\* after it.  The unterminated text gives no entry, and a well-formed entry
\* block that follows a block that is never closed is parsed as it is parsed
\* on its own.
UnbalancedBlockSkipped ==
    Parsed =>
        /\ text = FragUnterminated => doc.entries = <<>>
        /\ (Len(parts) = 2 /\ StartsUnbalanced(text) /\ IsWellFormedEntry(parts[2])) =>
              doc.entries = ParseBibtex(parts[2]).entries

\* C7: balanced-delimiter invariant.  The content of every block that became
\* an entry holds as many { as }.
BalancedBraces ==
    Parsed =>
        \A i \in 1..Len(blocks) :
            IsEntryBlock(blocks[i]) =>
                CountChar(blocks[i].content, "{") = CountChar(blocks[i].content, "}")

\* No later field of the list has the name of field i
LastOfItsName(i) == \A j \in (i + 1)..Len(items) : items[j].name # items[i].name

\* C8: a value that starts with { is read up to its matching }.  Every braced
\* field of a field list has as raw value the text between its braces, the
\* field after it is read too, and the value is the same whatever field is
\* written after it.
BracedValueExact ==
    pc = "read" =>
        \A i \in 1..Len(items) :
            items[i].kind = "brace" =>
                /\ LastOfItsName(i) =>
                      /\ MapHas(fields, items[i].name)
                      /\ MapGet(fields, items[i].name) = items[i].body
                /\ i < Len(items) => MapHas(fields, items[i + 1].name)
                /\ Len(items) = 1 =>
                      \A next \in ItemPool :
                          next.name # items[i].name =>
                              MapGet(ParseFields(fieldsText \o <<",", " ">> \o ItemText(next)),
                                     items[i].name)
                                  = MapGet(fields, items[i].name)

\* Every maximal run of whitespace characters of s replaced by one space
WhitespaceRunsToSpace(s) ==
    KeepPositions([i \in 1..Len(s) |-> IF s[i] \in SpaceChars THEN " " ELSE s[i]],
                  [i \in 1..Len(s) |->
                      s[i] \notin SpaceChars \/ i = 1 \/ s[i - 1] \notin SpaceChars])

\* The field list holds no # at all, so that every value of it is read as the
\* literal or bare token it is written as
NoConcatenation == ~Includes(fieldsText, "#")

\* The resolved value of field i of the field list
ResolvedItem(i) == MapGet(processed[1].processedFields, items[i].name)

\* C11: a single literal resolves to itself.  In a field list without #,
\* every field written as one braced or quoted literal resolves to the text
\* parseValue read between its delimiters, whatever variables and months
\* there are.
LiteralResolvesToItself ==
    (pc = "fieldsResolved" /\ NoConcatenation) =>
        \A i \in 1..Len(items) :
            (items[i].kind \in {"brace", "quote"} /\ LastOfItsName(i)) =>
                ResolvedItem(i) = MapGet(fields, items[i].name)

\* A segment of a bare value names a variable of the table or a month
MatchesVariable(segment) == MapHas(AllStrings(doc.strings), ToLowerCase(segment))

\* What a segment of a bare value is to resolve to: the value of the variable
\* it names, else its own text without the quotes around it
SegmentText(segment) ==
    IF MatchesVariable(segment)
    THEN MapGet(AllStrings(doc.strings), ToLowerCase(segment))
    ELSE StripOuterQuotes(segment)

\* C12: resolution never fails.  Every field written as a bare token or a
\* concatenation has a resolved value, which is its segments in order, a
\* segment that names no variable and no month standing as its own text
\* without the quotes around it.
UnknownReferenceKept ==
    pc = "fieldsResolved" =>
        \A i \in 1..Len(items) :
            (items[i].kind = "bare" /\ LastOfItsName(i)) =>
                LET segments == SplitOn(items[i].body, "#")
                IN  /\ MapHas(processed[1].processedFields, items[i].name)
                    /\ ResolvedItem(i)
                          = Join([k \in 1..Len(segments) |-> SegmentText(Trim(segments[k]))],
                                 <<>>)

\* C20: whitespace runs collapse.  In a field list without #, the raw value of
\* every braced or quoted field is the text between its delimiters with every
\* maximal run of whitespace replaced by one space.
WhitespaceCollapsed ==
    (pc \in {"read", "fieldsResolved"} /\ NoConcatenation) =>
        \A i \in 1..Len(items) :
            (items[i].kind \in {"brace", "quote"} /\ LastOfItsName(i)) =>
                MapGet(fields, items[i].name) = WhitespaceRunsToSpace(items[i].body)

\* The blocks the scanner finds in the output
OutputBlocks == ScanBlocks(CleanText(output), 0)

OutputLines == SplitOn(output, "\n")

\* A line of the output that holds a field: it starts with two spaces
IsFieldLine(line) == Len(line) >= 2 /\ line[1] = " " /\ line[2] = " "

\* C13: the output is syntactically valid BibTeX.  The scanner finds in the
\* output one closed block for every variable and every entry, a field line
\* that another field line follows ends with a comma, and the field line
\* before the closing brace of its entry does not.
OutputWellFormed ==
    Serialized =>
        /\ Len(OutputBlocks) = Len(doc.strings) + Len(processed)
        /\ \A k \in 1..(Len(OutputLines) - 1) :
              IsFieldLine(OutputLines[k]) =>
                  /\ IsFieldLine(OutputLines[k + 1]) => EndsWithChar(OutputLines[k], ",")
                  /\ OutputLines[k + 1] = <<"}">> => ~EndsWithChar(OutputLines[k], ",")

\* The author field in concatenation form and in simple form
ConcatenationForm(authors) ==
    AuthorPrefix
    \o Join([i \in 1..Len(authors) |->
                IF MapHas(doc.strings, authors[i]) THEN authors[i]
                ELSE <<"\"">> \o EscapeQuotes(authors[i]) \o <<"\"">>],
            ConcatSeparator)

SimpleForm(authors) == AuthorPrefix \o <<"{">> \o Join(authors, SpacedAnd) \o <<"}">>

\* The output holds the line, as the last field of an entry or before another
IsOutputLine(line) ==
    \/ IsSubstring(<<"\n">> \o line \o <<"\n">>, output)
    \/ IsSubstring(<<"\n">> \o line \o <<",", "\n">>, output)

\* C15: author field serialization.  For every entry with authors, the output
\* holds the author field in concatenation form when one of the authors is a
\* key of the variable table, and in simple form when none is; the other form
\* is not written.
AuthorFieldForm ==
    Serialized =>
        \A i \in 1..Len(processed) :
            LET authors == processed[i].authors
            IN  (authors # <<>> /\ MapHas(processed[i].fields, FieldAuthor)) =>
                    IF \E k \in 1..Len(authors) : MapHas(doc.strings, authors[k])
                    THEN /\ IsOutputLine(ConcatenationForm(authors))
                         /\ ~IsOutputLine(SimpleForm(authors))
                    ELSE /\ IsOutputLine(SimpleForm(authors))
                         /\ ~IsOutputLine(ConcatenationForm(authors))

\* An output with an author field in concatenation form, one author a variable
\* and one not
AuthorFieldFormWitness ==
    /\ Serialized
    /\ \E i \in 1..Len(processed) :
          /\ MapHas(processed[i].fields, FieldAuthor)
          /\ \E k \in 1..Len(processed[i].authors) :
                MapHas(doc.strings, processed[i].authors[k])
          /\ \E k \in 1..Len(processed[i].authors) :
                ~MapHas(doc.strings, processed[i].authors[k])
          /\ IsOutputLine(ConcatenationForm(processed[i].authors))

\* The variable a fragment defines, as written: its key and its value
StringDefinition(f) ==
    IF f = FragStringMe THEN [key |-> <<"m","e">>, value |-> <<"S","m","i","t","h",","," ","J","o","h","n">>]
    ELSE IF f = FragStringMeUpper THEN [key |-> <<"M","E">>, value |-> <<"D","o","e",","," ","J","a","n","e">>]
    ELSE IF f = FragStringMeEmpty THEN [key |-> <<"m","e">>, value |-> <<>>]
    ELSE [key |-> <<"j","a","n">>, value |-> <<"J","a","n","u","s">>]

StringFragments == {FragStringMe, FragStringMeUpper, FragStringMeEmpty, FragStringJan}

\* C19: keys are unique and the last occurrence wins.  No entry has two
\* fields whose names are equal up to letter case, the entry that gives title
\* twice has the one title of the second occurrence, and a variable defined
\* by two or more fragments has the value of the last of them.
LastOccurrenceWins ==
    Parsed =>
        /\ \A e \in 1..Len(doc.entries) :
              \A i, j \in 1..Len(doc.entries[e].fields) :
                  i # j => ToLowerCase(doc.entries[e].fields[i].key)
                             # ToLowerCase(doc.entries[e].fields[j].key)
        /\ text = FragDupField =>
              /\ Len(doc.entries) = 1
              /\ doc.entries[1].fields = <<[key |-> FieldTitle, value |-> <<"B">>]>>
        /\ \A i \in 1..Len(parts) :
              (/\ parts[i] \in StringFragments
               /\ \E h \in 1..(i - 1) :
                     /\ parts[h] \in StringFragments
                     /\ StringDefinition(parts[h]).value # <<>>
                     /\ ToLowerCase(StringDefinition(parts[h]).key)
                           = ToLowerCase(StringDefinition(parts[i]).key)
               /\ \A j \in (i + 1)..Len(parts) :
                     ~(/\ parts[j] \in StringFragments
                       /\ ToLowerCase(StringDefinition(parts[j]).key)
                             = ToLowerCase(StringDefinition(parts[i]).key))) =>
                  /\ MapHas(doc.strings, ToLowerCase(StringDefinition(parts[i]).key))
                  /\ MapGet(doc.strings, ToLowerCase(StringDefinition(parts[i]).key))
                        = StringDefinition(parts[i]).value

VariablesNamed(segment) ==
    {v \in 1..Len(state.stringVariables) :
        ToLowerCase(state.stringVariables[v].key) = ToLowerCase(segment)}

\* What a segment of a raw value is to resolve to under the hook's table: the
\* value of the variable it names up to letter case, else its own text
\* without the quotes around it
HookSegmentText(segment) ==
    IF VariablesNamed(segment) # {}
    THEN state.stringVariables[CHOOSE v \in VariablesNamed(segment) : TRUE].value
    ELSE StripOuterQuotes(segment)

\* No segment names two variables or a month
Unambiguous(segments) ==
    \A k \in 1..Len(segments) :
        /\ Cardinality(VariablesNamed(Trim(segments[k]))) <= 1
        /\ ~MapHas(MonthStrings, ToLowerCase(Trim(segments[k])))

\* C14: variable matching is case-insensitive.  Under every variable table
\* the hook holds, every field whose raw value is a bare token or a
\* concatenation resolves to its segments in order, a segment that equals a
\* variable's key up to letter case standing as that variable's value.
CaseInsensitiveVariables ==
    pc = "hook" =>
        \A e \in 1..Len(state.entries) :
            \A j \in 1..Len(state.entries[e].fields) :
                LET segments == SplitOn(state.entries[e].fields[j].value, "#")
                IN  Unambiguous(segments) =>
                        MapGet(state.processedEntries[e].processedFields,
                               state.entries[e].fields[j].key)
                            = Join([k \in 1..Len(segments) |->
                                       HookSegmentText(Trim(segments[k]))], <<>>)

\* The words of s, in order: its maximal runs of characters that are not
\* whitespace
WordsOf(s) ==
    LET starts == SelectSeq([i \in 1..Len(s) |-> i],
                      LAMBDA i : s[i] \notin SpaceChars
                                 /\ (i = 1 \/ s[i - 1] \in SpaceChars))
        EndOf(a) == CHOOSE b \in a..Len(s) :
                        /\ \A k \in a..b : s[k] \notin SpaceChars
                        /\ (b = Len(s) \/ s[b + 1] \in SpaceChars)
    IN  [k \in 1..Len(starts) |-> SubSeq(s, starts[k], EndOf(starts[k]))]

\* What follows the first comma of a name, as normalizeAuthorName renders it:
\* its comma-separated pieces trimmed and joined by a comma and a space
RenderedRemainder(remainder) ==
    LET pieces == SplitOn(remainder, ",")
    IN  Join([k \in 1..Len(pieces) |-> Trim(pieces[k])], CommaSpace)

NameSmithJohn == <<"S","m","i","t","h",","," ","J","o","h","n">>

NameJohnSmith == <<"J","o","h","n"," ","S","m","i","t","h">>

NameAcmeBraced == <<"{","A","c","m","e"," ","C","o","r","p","}">>

NameAcme == <<"A","c","m","e"," ","C","o","r","p">>

\* C16: author name normalization.  A name that starts with { and ends with }
\* is kept without these braces; a name with a comma gives what precedes the
\* first comma, a comma and a space, and what follows it; a name without
\* comma gives its last word, a comma and a space, and the words before it
\* joined by spaces, or the word alone when it is the only one.
NameNormalized ==
    pc = "normalized" =>
        LET t == Trim(authorName)
            c == IndexOf(t, ",", 0)
            w == WordsOf(t)
        IN  /\ IF StartsWithChar(t, "{") /\ EndsWithChar(t, "}")
               THEN normalized = SubSeq(t, 2, Len(t) - 1)
               ELSE IF c >= 0
               THEN normalized = Trim(Substring(t, 0, c)) \o CommaSpace
                                 \o RenderedRemainder(SubstringFrom(t, c + 1))
               ELSE IF Len(w) >= 2
               THEN normalized = w[Len(w)] \o CommaSpace
                                 \o Join(SubSeq(w, 1, Len(w) - 1), <<" ">>)
               ELSE normalized = t
            /\ authorName = NameSmithJohn => normalized = NameSmithJohn
            /\ authorName = NameJohnSmith => normalized = NameSmithJohn
            /\ authorName = NameAcmeBraced => normalized = NameAcme

\* John Smith was given and Smith, John came out
NameNormalizedWitness ==
    /\ pc = "normalized"
    /\ authorName = NameJohnSmith
    /\ normalized = NameSmithJohn

\* C18: processEntries terminates.  Every call of processEntries, whatever
\* entries were linked, comes to return.
ProcessTerminates == <>(pc = "returned")

\* processEntries returned for two entries that name each other
ProcessTerminatesWitness ==
    /\ pc = "returned"
    /\ \E i, j \in 1..Len(doc.entries) :
          /\ i # j
          /\ TargetOf(doc.entries, i) = j
          /\ TargetOf(doc.entries, j) = i

\* The loop run step by step returns what processEntries returns
StepwiseAgrees == pc = "returned" => processed = ProcessEntries(doc.entries, doc.strings)

\* C26: the hook's entry keys stay unique.  No two entries of the hook's state
\* have the same key.
HookKeysUnique ==
    pc = "hook" =>
        \A i, j \in 1..Len(state.entries) :
            i # j => state.entries[i].key # state.entries[j].key

\* C27: the hook's derived state never goes stale.  In every state of the
\* hook, processedEntries is what processEntries gives for the entries and
\* the string variables the state holds.
DerivedStateFresh ==
    pc = "hook" =>
        state.processedEntries = ProcessEntries(state.entries, state.stringVariables)

\* The hook holds an entry whose note refers to a variable, and the table
\* defines the variable
DerivedStateFreshWitness ==
    /\ pc = "hook"
    /\ \E e \in 1..Len(state.entries) :
          /\ MapHas(state.entries[e].fields, FieldNote)
          /\ MapGet(state.entries[e].fields, FieldNote) = <<"m","e">>
          /\ MapHas(state.stringVariables, <<"m","e">>)
          /\ MapGet(state.processedEntries[e].processedFields, FieldNote)
                = MapGet(state.stringVariables, <<"m","e">>)

\* What the claim takes to be tried again: a status of 500 or more, or 429
ClaimRetries(status) == status >= 500 \/ status = 429

\* Never more than three attempts; the waits are 1000 ms and then 2000 ms; a
\* response that is to be tried again and is not the third is followed by a
\* wait, and any other response is the last attempt and is what is returned
FetchBounded ==
    /\ Len(fetched) <= 3
    /\ \A i \in 1..Len(waited) : waited[i] = 1000 * i
    /\ \A i \in 1..Len(fetched) :
          fetched[i].kind = "response" =>
              IF ClaimRetries(fetched[i].status) /\ i < 3
              THEN Len(waited) >= i
              ELSE /\ i = Len(fetched)
                   /\ Len(waited) = i - 1
                   /\ pc = "returned"
                   /\ settled = <<fetched[i]>>

NormalizeIdempotent == pc = "renormalized" => renormalized = normalized

VariableMe == <<"m","e">>

AuthorDoeJane == <<"D","o","e",","," ","J","a","n","e">>

AuthorConcatRaw ==
    <<"m","e"," ","#"," ","\""," ","a","n","d"," ","\""," ","#"," ","\"","D","o","e",","," ","J","a","n","e","\"">>

AuthorConcatField ==
    <<" "," ","a","u","t","h","o","r"," ","="," ","m","e"," ","#"," ","\""," ","a","n","d"," ","\""," ","#"," ","\"","D","o","e",","," ","J","a","n","e","\"","\n">>

\* C9: a concatenation ends at the next top-level comma only.  For the entry
\* @article{k1, author = me # " and " # "Doe, Jane"} with me defined, the raw
\* author value is the whole concatenation, the authors are the variable key
\* me and the name Doe, Jane, and the output holds the author field as a
\* concatenation.
ConcatenationKeptWhole ==
    text = FragStringMe \o FragAuthorConcat =>
        /\ Parsed =>
              /\ Len(doc.entries) = 1
              /\ MapHas(doc.entries[1].fields, FieldAuthor)
              /\ MapGet(doc.entries[1].fields, FieldAuthor) = AuthorConcatRaw
        /\ Processed => processed[1].authors = <<VariableMe, AuthorDoeJane>>
        /\ Serialized => IsSubstring(AuthorConcatField, output)

AuthorVariableField == <<" "," ","a","u","t","h","o","r"," ","="," ","m","e","\n">>

AuthorBraced == <<"a","u","t","h","o","r"," ","="," ","{">>

AuthorQuoted == <<"a","u","t","h","o","r"," ","="," ","\"">>

\* C10: an author field that is a bare reference to a defined variable keeps
\* the variable.  For @article{k1, author = me} with me defined, the authors
\* are the variable key me, and the output holds author = me, neither braced
\* nor quoted.
BareVariableAuthorKept ==
    text = FragStringMe \o FragAuthorVariable =>
        /\ Processed => processed[1].authors = <<VariableMe>>
        /\ Serialized =>
              /\ IsSubstring(AuthorVariableField, output)
              /\ ~IsSubstring(AuthorBraced, output)
              /\ ~IsSubstring(AuthorQuoted, output)

\* C22: citeVersion is only incremented when the Cite instance is replaced.
\* In every step of the provider, citeVersion does not decrease, and it
\* grows only if the next state's cite is another instance than the current
\* state's cite.
VersionFollowsInstance ==
    [][/\ ui'.citeVersion >= ui.citeVersion
       /\ ui'.citeVersion > ui.citeVersion => ui'.cite.inst # ui.cite.inst]_vars

\* C24: entry ids stay unique.  The entries of cite.data have pairwise
\* distinct ids, also after two addEntry calls made before stateRef.current
\* is refreshed.
EntryIdsUnique ==
    \A i, j \in 1..Len(ui.cite.data) :
        i # j => IdOf(ui.cite.data[i]) # IdOf(ui.cite.data[j])

\* C25: duplicateEntry(id) resolves to the id of the copy it creates.  After
\* duplicateEntry of an entry that exists, the text returned is the id of the
\* entry DUPLICATE_ENTRY appended to cite.data.
DuplicateReturnsCopyId ==
    (result.op = "duplicateEntry" /\ FindIndexById(ui.cite.data, result.id) # 0) =>
        result.value = IdOf(ui.cite.data[Len(ui.cite.data)])

\* C28: at most one thing is being edited.  In every state the provider
\* reaches through the actions it exposes, form.editingEntry and
\* form.editingVariable are not both defined.
OnlyOneEdited ==
    ~(ui.form.editingEntry # Undefined /\ ui.form.editingVariable # Undefined)

\* A variable is being edited while the citation holds an entry and the
\* variable
OnlyOneEditedWitness ==
    /\ ui.form.editingVariable = VariableKey
    /\ ui.form.editingEntry = Undefined
    /\ MapHas(ui.variables, VariableKey)
    /\ ui.cite.data # <<>>

LastUpdateWins ==
    (/\ calls # <<>>
     /\ timers = <<>>
     /\ \A i \in 1..Len(calls) : calls[i].id = calls[1].id /\ calls[i].id # MissingId)
    => LET last  == calls[Len(calls)]
           entry == ui.cite.data[FindIndexById(ui.cite.data, last.id)]
       IN  ApplyUpdates(entry.props, last.updates) = entry.props

====
